---- MODULE Spec2Model ----
(***************************************************************************)
(* Corn Maze Tycoon: the maze surface (CornMazeGame), the agent runtime    *)
(* (Player) and the tiered decision engine (AIBrain).                      *)
(*                                                                         *)
(* Representation.                                                         *)
(*   - a position {x, y} is the tuple <<x, y>>; a null position is <<>>.   *)
(*   - grid[y][x] === 1 is  <<x, y>> \in grid  (grid = the plowed cells).  *)
(*   - a path is a sequence of positions; a null path is <<>>.             *)
(*   - this.keys is read by handleMovement only to pick one direction, so  *)
(*     a key event carries the direction handleMovement would read.        *)
(***************************************************************************)
EXTENDS Integers, Sequences, FiniteSets, TLC

VARIABLES
    width, height,        \* CornMazeGame.width / height
    grid,                 \* CornMazeGame.grid, as the set of plowed cells
    tractorPosition,      \* CornMazeGame.tractorPosition
    startPosition,        \* CornMazeGame.startPosition (Entry) or Null
    finishPosition,       \* CornMazeGame.finishPosition (Exit) or Null
    shortestPath,         \* CornMazeGame.shortestPath (set by updateStats)
    longestPath,          \* CornMazeGame.longestPath (set by updateStats)
    undoHistory,          \* CornMazeGame.undoHistory
    initialState,         \* CornMazeGame.initialState
    gameMode,             \* "farmer" | "player"
    isMoving,             \* tractor animation flag (one pending 200 ms timer)
    isPaused,             \* CornMazeGame.isPaused
    currentTierConfig,    \* CornMazeGame.currentTierConfig: three tiers of blocks
    players               \* CornMazeGame.players: sequence of Player records

mazeVars == <<width, height, grid, tractorPosition, startPosition,
              finishPosition, shortestPath, longestPath, undoHistory,
              initialState, isMoving>>
playVars == <<gameMode, isPaused, currentTierConfig, players>>
vars == <<mazeVars, playVars>>

(***************************************************************************)
(* Bounds of the model and constants of the program.                       *)
(***************************************************************************)
\* The constructor's grid size (the program starts with 12 x 12).
InitWidth == 7
InitHeight == 7
\* setupSettings clamps both dimensions to MinSize..30; the model stops at MaxSize.
MinSize == 7
MaxSize == 8
\* undoHistory grows with every tractor move; moves stop at this length.
MaxHistory == 5
\* Players spawned at a time, blocks held by all tier configurations together,
\* and moves one player commits.
MaxPlayers == 2
MaxBlocks == 2
MaxAgentMoves == 6
\* Moves committed by a player whose brain is a single Wall Following or
\* Check Map block: its runs have one draw at most and are followed longer.
MaxGuidedMoves == 24
\* Block weights are counted in units of 1 / WeightUnit: the weight 1 of a new
\* block is WeightUnit units, and the weight divider moves in whole units.
WeightUnit == 2

Null == <<>>
NullPath == <<>>
Dirs == {"up", "down", "left", "right"}
Sizes == MinSize..MaxSize

Min(a, b) == IF a < b THEN a ELSE b
Max(a, b) == IF a > b THEN a ELSE b

(***************************************************************************)
(* Grid Model                                                              *)
(***************************************************************************)
InBounds(w, h, x, y) == x >= 0 /\ x < w /\ y >= 0 /\ y < h

isOnPerimeter(w, h, x, y) == x = 0 \/ x = w - 1 \/ y = 0 \/ y = h - 1

countPlowedPerimeterSquares(w, h, g) ==
    Cardinality({c \in g : isOnPerimeter(w, h, c[1], c[2])})

\* plowedCount < 4 for the block (x1,y1)..(x2,y2) once (x, y) is plowed.
\* check2x2Block without "|| (checkX === x && checkY === y)": the square
\* about to be plowed is not counted.
check2x2BlockPlowedOnly(w, h, g, x, y, x1, y1, x2, y2) ==
    IF x1 < 0 \/ y1 < 0 \/ x2 >= w \/ y2 >= h
    THEN TRUE
    ELSE Cardinality({c \in (x1..x2) \X (y1..y2) : c \in g}) < 4

check2x2Block(w, h, g, x, y, x1, y1, x2, y2) ==
    IF x1 < 0 \/ y1 < 0 \/ x2 >= w \/ y2 >= h
    THEN TRUE
    ELSE Cardinality({c \in (x1..x2) \X (y1..y2) :
                         c \in g \/ (c[1] = x /\ c[2] = y)}) < 4

\* The perimeter limit with ">" for ">=".
PerimeterCapExceeded(w, h, g) == countPlowedPerimeterSquares(w, h, g) > 2

\* "currentPerimeterCount >= 2": two perimeter squares are plowed already.
PerimeterCapReached(w, h, g) == countPlowedPerimeterSquares(w, h, g) >= 2

\* canPlow without the "already plowed" shortcut.
canPlowNoRevisit(w, h, g, x, y) ==
    IF isOnPerimeter(w, h, x, y) /\ PerimeterCapReached(w, h, g)
    THEN FALSE
    ELSE /\ check2x2Block(w, h, g, x, y, x - 1, y - 1, x, y)
         /\ check2x2Block(w, h, g, x, y, x, y - 1, x + 1, y)
         /\ check2x2Block(w, h, g, x, y, x - 1, y, x, y + 1)
         /\ check2x2Block(w, h, g, x, y, x, y, x + 1, y + 1)

canPlow(w, h, g, x, y) ==
    IF <<x, y>> \in g THEN TRUE
    ELSE IF isOnPerimeter(w, h, x, y) /\ PerimeterCapReached(w, h, g)
    THEN FALSE
    ELSE /\ check2x2Block(w, h, g, x, y, x - 1, y - 1, x, y)
         /\ check2x2Block(w, h, g, x, y, x, y - 1, x + 1, y)
         /\ check2x2Block(w, h, g, x, y, x - 1, y, x, y + 1)
         /\ check2x2Block(w, h, g, x, y, x, y, x + 1, y + 1)

(***************************************************************************)
(* Path Finder (CornMazeGame.findShortestPath / findLongestPath)           *)
(***************************************************************************)
\* directions = [[0, 1], [1, 0], [0, -1], [-1, 0]]
PathDirections == << <<0, 1>>, <<1, 0>>, <<0, -1>>, <<-1, 0>> >>

\* The path rebuilt from the parent map: unshift until no parent is recorded.
RECURSIVE ReconstructPath(_, _, _)
ReconstructPath(parent, current, path) ==
    IF current \in DOMAIN parent
    THEN ReconstructPath(parent, parent[current], <<current>> \o path)
    ELSE <<current>> \o path

\* One pass of "for (const [dx, dy] of directions)" for the dequeued cell c:
\* st = [queue, visited, parent].
RECURSIVE BfsExpand(_, _, _, _, _, _)
BfsExpand(w, h, g, c, i, st) ==
    IF i > Len(PathDirections) THEN st
    ELSE LET n == <<c[1] + PathDirections[i][1], c[2] + PathDirections[i][2]>>
         IN  IF InBounds(w, h, n[1], n[2]) /\ n \in g /\ n \notin st.visited
             THEN BfsExpand(w, h, g, c, i + 1,
                     [queue |-> Append(st.queue, n),
                      visited |-> st.visited \cup {n},
                      parent |-> (n :> c) @@ st.parent])
             ELSE BfsExpand(w, h, g, c, i + 1, st)

\* The search loop with queue.pop() for queue.shift(): the newest cell first.
RECURSIVE BfsLoopPop(_, _, _, _, _)
BfsLoopPop(w, h, g, finish, st) ==
    IF st.queue = <<>> THEN NullPath
    ELSE LET c == st.queue[Len(st.queue)]
         IN  IF c = finish
             THEN ReconstructPath(st.parent, c, <<>>)
             ELSE BfsLoopPop(w, h, g, finish,
                     BfsExpand(w, h, g, c, 1,
                        [st EXCEPT !.queue = SubSeq(st.queue, 1, Len(st.queue) - 1)]))

RECURSIVE BfsLoop(_, _, _, _, _)
BfsLoop(w, h, g, finish, st) ==
    IF st.queue = <<>> THEN NullPath
    ELSE LET c == Head(st.queue)
         IN  IF c = finish
             THEN ReconstructPath(st.parent, c, <<>>)
             ELSE BfsLoop(w, h, g, finish,
                     BfsExpand(w, h, g, c, 1,
                        [st EXCEPT !.queue = Tail(st.queue)]))

\* AIBrain.findShortestPath(start, finish, maze)
brainFindShortestPath(w, h, g, start, finish) ==
    IF start = Null \/ finish = Null THEN NullPath
    ELSE BfsLoop(w, h, g, finish,
            [queue |-> <<start>>, visited |-> {start}, parent |-> <<>>])

\* CornMazeGame.findShortestPath(): the same search between the two markers.
findShortestPath(w, h, g, start, finish) ==
    IF start = Null \/ finish = Null THEN NullPath
    ELSE BfsLoop(w, h, g, finish,
            [queue |-> <<start>>, visited |-> {start}, parent |-> <<>>])

\* The descent test with "nx > 0" for "nx >= 0".
DfsCanVisitOffByOne(w, h, g, n, visited) ==
    n[1] > 0 /\ n[1] < w /\ n[2] >= 0 /\ n[2] < h /\ n \in g /\ n \notin visited

\* The test that lets dfs descend into the neighbour n.
DfsCanVisit(w, h, g, n, visited) ==
    n[1] >= 0 /\ n[1] < w /\ n[2] >= 0 /\ n[2] < h /\ n \in g /\ n \notin visited

\* dfs(x, y, path): the paths pushed to allPaths, in the order they are pushed.
\* visited is the set of cells of path (added before, deleted after each descent).
RECURSIVE Dfs(_, _, _, _, _, _)
RECURSIVE DfsDirs(_, _, _, _, _, _, _)
Dfs(w, h, g, finish, path, visited) ==
    IF path[Len(path)] = finish THEN <<path>>
    ELSE DfsDirs(w, h, g, finish, path, visited, 1)
DfsDirs(w, h, g, finish, path, visited, i) ==
    IF i > Len(PathDirections) THEN <<>>
    ELSE LET c == path[Len(path)]
             n == <<c[1] + PathDirections[i][1], c[2] + PathDirections[i][2]>>
         IN  (IF DfsCanVisit(w, h, g, n, visited)
              THEN Dfs(w, h, g, finish, Append(path, n), visited \cup {n})
              ELSE <<>>)
             \o DfsDirs(w, h, g, finish, path, visited, i + 1)

\* The reduce with "<" for ">".
RECURSIVE ReduceShortest(_, _, _)
ReduceShortest(allPaths, i, longest) ==
    IF i > Len(allPaths) THEN longest
    ELSE ReduceShortest(allPaths, i + 1,
            IF Len(allPaths[i]) < Len(longest) THEN allPaths[i] ELSE longest)

\* allPaths.reduce((longest, current) => current.length > longest.length ? ...)
RECURSIVE ReduceLongest(_, _, _)
ReduceLongest(allPaths, i, longest) ==
    IF i > Len(allPaths) THEN longest
    ELSE ReduceLongest(allPaths, i + 1,
            IF Len(allPaths[i]) > Len(longest) THEN allPaths[i] ELSE longest)

findLongestPath(w, h, g, start, finish) ==
    IF start = Null \/ finish = Null THEN NullPath
    ELSE LET allPaths == Dfs(w, h, g, finish, <<start>>, {start})
         IN  IF Len(allPaths) = 0 THEN NullPath
             ELSE ReduceLongest(allPaths, 2, allPaths[1])

(***************************************************************************)
(* Move Generator (AIBrain.getPossibleMoves)                               *)
(* A move is [x, y, direction]; lastDirection is a direction or "null".    *)
(***************************************************************************)
\* directions = [up, right, down, left] with their deltas
MoveDirections ==
    << [x |-> 0, y |-> -1, name |-> "up"],
       [x |-> 1, y |-> 0, name |-> "right"],
       [x |-> 0, y |-> 1, name |-> "down"],
       [x |-> -1, y |-> 0, name |-> "left"] >>

\* The push test with "> 0" for ">= 0".
MoveIsLegalOffByOne(w, h, g, m) ==
    m.x > 0 /\ m.x < w /\ m.y > 0 /\ m.y < h /\ <<m.x, m.y>> \in g

\* The test that lets getPossibleMoves push newPos.
MoveIsLegal(w, h, g, m) ==
    m.x >= 0 /\ m.x < w /\ m.y >= 0 /\ m.y < h /\ <<m.x, m.y>> \in g

getPossibleMoves(w, h, g, pos) ==
    LET newPos == [i \in 1..Len(MoveDirections) |->
                      [x |-> pos[1] + MoveDirections[i].x,
                       y |-> pos[2] + MoveDirections[i].y,
                       direction |-> MoveDirections[i].name]]
    IN  SelectSeq(newPos, LAMBDA m : MoveIsLegal(w, h, g, m))

oppositeDir(d) ==
    CASE d = "up" -> "down"
      [] d = "down" -> "up"
      [] d = "left" -> "right"
      [] d = "right" -> "left"

\* possibleMoves.filter(m => m.direction !== backwardDir), all moves when
\* there is no last direction.
ForwardMoves(moves, lastDirection) ==
    IF lastDirection = "null" THEN moves
    ELSE SelectSeq(moves, LAMBDA m : m.direction # oppositeDir(lastDirection))

\* decideNextMove without the reversal filter.
KeepReversal(moves, lastDirection) == moves

\* decideNextMove's reversal filter: the forward moves when there is one.
FilterReversal(moves, lastDirection) ==
    IF lastDirection # "null" /\ Len(ForwardMoves(moves, lastDirection)) > 0
    THEN ForwardMoves(moves, lastDirection)
    ELSE moves

(***************************************************************************)
(* Rule Block Library.  ctx is the context of one decision:                *)
(*   [w, h, grid, pos, visited, visitCounts, finish, lastDirection,        *)
(*    allPlayers, index].                                                  *)
(* A block is [type, weight, mode]; a block result is [moves, thought],    *)
(* thought a glyph name or "null".                                         *)
(***************************************************************************)
\* distanceToUncharted looks 5 cells ahead, countPlayersInDirection 7.
UnchartedLookahead == 5
SocialLookahead == 7

SeqToSet(s) == {s[i] : i \in DOMAIN s}

RECURSIVE SeqMin(_)
SeqMin(s) == IF Len(s) = 1 THEN s[1] ELSE Min(s[1], SeqMin(Tail(s)))
RECURSIVE SeqMax(_)
SeqMax(s) == IF Len(s) = 1 THEN s[1] ELSE Max(s[1], SeqMax(Tail(s)))

MapSeq(s, F(_)) == [i \in DOMAIN s |-> F(s[i])]

directionDeltas(d) ==
    CASE d = "up" -> <<0, -1>>
      [] d = "down" -> <<0, 1>>
      [] d = "left" -> <<-1, 0>>
      [] d = "right" -> <<1, 0>>

\* visitCounts.get(key) || 0
VisitCount(visitCounts, m) ==
    IF <<m.x, m.y>> \in DOMAIN visitCounts THEN visitCounts[<<m.x, m.y>>] ELSE 0

\* Squared straight-line distance; Math.sqrt keeps the order of the squares.
Dist2(finish, x, y) ==
    (finish[1] - x) * (finish[1] - x) + (finish[2] - y) * (finish[2] - y)

\* The right-hand order with straight ranked above the right turn.
straightFirstPriority(d) ==
    CASE d = "up" -> <<"up", "right", "left", "down">>
      [] d = "right" -> <<"right", "down", "up", "left">>
      [] d = "down" -> <<"down", "left", "right", "up">>
      [] d = "left" -> <<"left", "up", "down", "right">>

\* scoreWallFollowing: 4 - index of the direction in the priority order.
rightPriority(d) ==
    CASE d = "up" -> <<"right", "up", "left", "down">>
      [] d = "right" -> <<"down", "right", "up", "left">>
      [] d = "down" -> <<"left", "down", "right", "up">>
      [] d = "left" -> <<"up", "left", "down", "right">>

leftPriority(d) ==
    CASE d = "up" -> <<"left", "up", "right", "down">>
      [] d = "right" -> <<"up", "right", "down", "left">>
      [] d = "down" -> <<"right", "down", "left", "up">>
      [] d = "left" -> <<"down", "left", "up", "right">>

scoreWallFollowing(move, lastDirection, mode) ==
    IF lastDirection = "null" THEN 0
    ELSE LET order == IF mode = "left" THEN leftPriority(lastDirection)
                      ELSE rightPriority(lastDirection)
             index == CHOOSE i \in 1..4 : order[i] = move.direction
         IN  4 - (index - 1)

wallFollowingLogic(moves, lastDirection, mode) ==
    LET maxScore == SeqMax(MapSeq(moves, LAMBDA m : scoreWallFollowing(m, lastDirection, mode)))
    IN  [moves |-> SelectSeq(moves, LAMBDA m :
                      scoreWallFollowing(m, lastDirection, mode) = maxScore),
         thought |-> IF mode = "left" THEN "leftArrow" ELSE "rightArrow"]

isFinishVisible(ctx) ==
    IF ctx.finish = Null THEN FALSE
    ELSE IF ctx.pos[1] = ctx.finish[1]
    THEN \A y \in (Min(ctx.pos[2], ctx.finish[2]) + 1)..(Max(ctx.pos[2], ctx.finish[2]) - 1) :
            <<ctx.pos[1], y>> \in ctx.grid
    ELSE IF ctx.pos[2] = ctx.finish[2]
    THEN \A x \in (Min(ctx.pos[1], ctx.finish[1]) + 1)..(Max(ctx.pos[1], ctx.finish[1]) - 1) :
            <<x, ctx.pos[2]>> \in ctx.grid
    ELSE FALSE

\* The loop of distanceToUncharted from the cell at the given distance.
RECURSIVE UnchartedScan(_, _, _, _)
UnchartedScan(ctx, delta, check, distance) ==
    IF distance > UnchartedLookahead THEN 0
    ELSE IF ~InBounds(ctx.w, ctx.h, check[1], check[2]) THEN 0
    ELSE IF check \notin ctx.grid THEN 0
    ELSE IF check \notin ctx.visited THEN distance
    ELSE UnchartedScan(ctx, delta, <<check[1] + delta[1], check[2] + delta[2]>>, distance + 1)

distanceToUncharted(ctx, move) ==
    LET delta == directionDeltas(move.direction)
    IN  UnchartedScan(ctx, delta, <<ctx.pos[1] + delta[1], ctx.pos[2] + delta[2]>>, 1)

hasUnchartedTerritory(ctx, moves) ==
    \E i \in DOMAIN moves : distanceToUncharted(ctx, moves[i]) > 0

\* The players counted on one cell: not the deciding one, active, not
\* finished, not removed.
PlayersOnCell(ctx, check) ==
    Cardinality({i \in DOMAIN ctx.allPlayers :
        /\ i # ctx.index
        /\ ctx.allPlayers[i].isActive
        /\ ~ctx.allPlayers[i].isFinished
        /\ ~ctx.allPlayers[i].isRemoved
        /\ ctx.allPlayers[i].position = check})

RECURSIVE PlayersScan(_, _, _, _)
PlayersScan(ctx, delta, check, distance) ==
    IF distance > SocialLookahead THEN 0
    ELSE IF ~InBounds(ctx.w, ctx.h, check[1], check[2]) THEN 0
    ELSE IF check \notin ctx.grid THEN 0
    ELSE PlayersOnCell(ctx, check)
         + PlayersScan(ctx, delta, <<check[1] + delta[1], check[2] + delta[2]>>, distance + 1)

countPlayersInDirection(ctx, move) ==
    IF Len(ctx.allPlayers) <= 1 THEN 0
    ELSE LET delta == directionDeltas(move.direction)
         IN  PlayersScan(ctx, delta, <<ctx.pos[1] + delta[1], ctx.pos[2] + delta[2]>>, 1)

hasVisiblePlayers(ctx, moves) ==
    \E i \in DOMAIN moves : countPlayersInDirection(ctx, moves[i]) > 0

\* The moves of lineOfSightLogic that head toward a visible finish.
TowardFinish(ctx, moves) ==
    SelectSeq(moves, LAMBDA m :
        \/ (m.direction = "up" /\ ctx.finish[2] < ctx.pos[2])
        \/ (m.direction = "down" /\ ctx.finish[2] > ctx.pos[2])
        \/ (m.direction = "left" /\ ctx.finish[1] < ctx.pos[1])
        \/ (m.direction = "right" /\ ctx.finish[1] > ctx.pos[1]))

\* lineOfSightLogic with the second priority (uncharted territory) first.
lineOfSightLogicUnchartedFirst(ctx, moves) ==
    LET withDistance == SelectSeq(moves, LAMBDA m : distanceToUncharted(ctx, m) > 0)
    IN  IF Len(withDistance) > 0
        THEN LET bestDistance ==
                   SeqMin(MapSeq(withDistance, LAMBDA m : distanceToUncharted(ctx, m)))
             IN  [moves |-> SelectSeq(withDistance, LAMBDA m :
                               distanceToUncharted(ctx, m) = bestDistance),
                  thought |-> "insight"]
        ELSE IF ctx.finish # Null /\ isFinishVisible(ctx) /\ Len(TowardFinish(ctx, moves)) > 0
        THEN [moves |-> TowardFinish(ctx, moves), thought |-> "insight"]
        ELSE [moves |-> moves, thought |-> "null"]

lineOfSightLogic(ctx, moves) ==
    IF ctx.finish # Null /\ isFinishVisible(ctx) /\ Len(TowardFinish(ctx, moves)) > 0
    THEN [moves |-> TowardFinish(ctx, moves), thought |-> "insight"]
    ELSE LET withDistance == SelectSeq(moves, LAMBDA m : distanceToUncharted(ctx, m) > 0)
         IN  IF Len(withDistance) > 0
             THEN LET bestDistance ==
                        SeqMin(MapSeq(withDistance, LAMBDA m : distanceToUncharted(ctx, m)))
                  IN  [moves |-> SelectSeq(withDistance, LAMBDA m :
                                    distanceToUncharted(ctx, m) = bestDistance),
                       thought |-> "insight"]
             ELSE [moves |-> moves, thought |-> "null"]

\* The moves strictly closer to the finish than the current position.
CloserMoves(ctx, moves) ==
    SelectSeq(moves, LAMBDA m :
        Dist2(ctx.finish, m.x, m.y) < Dist2(ctx.finish, ctx.pos[1], ctx.pos[2]))

\* The test ending at "closerMoves.length === 0": any closer move suffices.
towardExitApplicableAnyCloser(ctx, moves) ==
    IF ctx.finish = Null THEN FALSE
    ELSE Len(CloserMoves(ctx, moves)) > 0

towardExitApplicable(ctx, moves) ==
    IF ctx.finish = Null THEN FALSE
    ELSE LET closer == CloserMoves(ctx, moves)
         IN  IF Len(closer) = 0 THEN FALSE
             ELSE LET distances == MapSeq(closer, LAMBDA m : Dist2(ctx.finish, m.x, m.y))
                  IN  SeqMin(distances) < SeqMax(distances) \/ Len(closer) = 1

towardExitLogic(ctx, moves) ==
    IF ctx.finish = Null THEN [moves |-> moves, thought |-> "null"]
    ELSE LET closer == CloserMoves(ctx, moves)
         IN  IF Len(closer) = 0 THEN [moves |-> moves, thought |-> "null"]
             ELSE LET minDistance ==
                        SeqMin(MapSeq(closer, LAMBDA m : Dist2(ctx.finish, m.x, m.y)))
                  IN  [moves |-> SelectSeq(closer, LAMBDA m :
                                    Dist2(ctx.finish, m.x, m.y) = minDistance),
                       thought |-> "compass"]

\* checkMapLogic that never narrows.
checkMapLogicKeepsAll(ctx, moves) == [moves |-> moves, thought |-> "null"]

checkMapLogic(ctx, moves) ==
    IF ctx.finish = Null THEN [moves |-> moves, thought |-> "null"]
    ELSE LET path == brainFindShortestPath(ctx.w, ctx.h, ctx.grid, ctx.pos, ctx.finish)
         IN  IF Len(path) <= 1 THEN [moves |-> moves, thought |-> "null"]
             ELSE LET best == SelectSeq(moves, LAMBDA m : <<m.x, m.y>> = path[2])
                  IN  IF Len(best) > 0 THEN [moves |-> best, thought |-> "map"]
                      ELSE [moves |-> moves, thought |-> "null"]

backtrackingApplicable(ctx, moves) ==
    LET counts == MapSeq(moves, LAMBDA m : VisitCount(ctx.visitCounts, m))
    IN  SeqMin(counts) < SeqMax(counts)

\* backtrackingLogic keeping the moves below the minimum / above the maximum.
backtrackingLogicStrict(ctx, moves, mode) ==
    LET counts == MapSeq(moves, LAMBDA m : VisitCount(ctx.visitCounts, m))
    IN  IF mode = "avoid"
        THEN [moves |-> SelectSeq(moves, LAMBDA m :
                           VisitCount(ctx.visitCounts, m) < SeqMin(counts)),
              thought |-> "brain"]
        ELSE [moves |-> SelectSeq(moves, LAMBDA m :
                           VisitCount(ctx.visitCounts, m) > SeqMax(counts)),
              thought |-> "question"]

\* backtrackingLogic with the two modes exchanged.
backtrackingLogicExchanged(ctx, moves, mode) ==
    LET counts == MapSeq(moves, LAMBDA m : VisitCount(ctx.visitCounts, m))
    IN  IF mode = "seek"
        THEN [moves |-> SelectSeq(moves, LAMBDA m :
                           VisitCount(ctx.visitCounts, m) = SeqMin(counts)),
              thought |-> "brain"]
        ELSE [moves |-> SelectSeq(moves, LAMBDA m :
                           VisitCount(ctx.visitCounts, m) = SeqMax(counts)),
              thought |-> "question"]

backtrackingLogic(ctx, moves, mode) ==
    LET counts == MapSeq(moves, LAMBDA m : VisitCount(ctx.visitCounts, m))
    IN  IF mode = "avoid"
        THEN [moves |-> SelectSeq(moves, LAMBDA m :
                           VisitCount(ctx.visitCounts, m) = SeqMin(counts)),
              thought |-> "brain"]
        ELSE [moves |-> SelectSeq(moves, LAMBDA m :
                           VisitCount(ctx.visitCounts, m) = SeqMax(counts)),
              thought |-> "question"]

\* The score without the negation for avoid.
SocialScoreCount(ctx, m, mode) == countPlayersInDirection(ctx, m)

\* score of socialLogic: the count for follow, its negation for avoid.
SocialScore(ctx, m, mode) ==
    IF mode = "follow" THEN countPlayersInDirection(ctx, m)
    ELSE 0 - countPlayersInDirection(ctx, m)

socialLogic(ctx, moves, mode) ==
    LET maxScore == SeqMax(MapSeq(moves, LAMBDA m : SocialScore(ctx, m, mode)))
    IN  [moves |-> SelectSeq(moves, LAMBDA m : SocialScore(ctx, m, mode) = maxScore),
         thought |-> IF mode = "follow" THEN "heart" ELSE "peek"]

randomGuesser(moves) == [moves |-> moves, thought |-> "dice"]

\* block.mode || default
ModeOr(block, default) == IF block.mode = "null" THEN default ELSE block.mode

isBlockApplicable(block, ctx, moves) ==
    CASE block.type \in {"wallFollowing", "rightWall"} -> ctx.lastDirection # "null"
      [] block.type = "lineOfSight" ->
            isFinishVisible(ctx) \/ hasUnchartedTerritory(ctx, moves)
      [] block.type = "towardExit" -> towardExitApplicable(ctx, moves)
      [] block.type = "checkMap" ->
            /\ ctx.finish # Null
            /\ Len(brainFindShortestPath(ctx.w, ctx.h, ctx.grid, ctx.pos, ctx.finish)) > 1
      [] block.type = "backtracking" -> backtrackingApplicable(ctx, moves)
      [] block.type = "social" -> hasVisiblePlayers(ctx, moves)
      [] block.type = "randomGuesser" -> TRUE
      [] OTHER -> FALSE

executeBlock(block, ctx, moves) ==
    CASE block.type = "wallFollowing" ->
            wallFollowingLogic(moves, ctx.lastDirection, ModeOr(block, "right"))
      [] block.type = "rightWall" -> wallFollowingLogic(moves, ctx.lastDirection, "right")
      [] block.type = "lineOfSight" -> lineOfSightLogic(ctx, moves)
      [] block.type = "towardExit" -> towardExitLogic(ctx, moves)
      [] block.type = "checkMap" -> checkMapLogic(ctx, moves)
      [] block.type = "backtracking" -> backtrackingLogic(ctx, moves, ModeOr(block, "avoid"))
      [] block.type = "social" -> socialLogic(ctx, moves, ModeOr(block, "follow"))
      [] OTHER -> randomGuesser(moves)

(***************************************************************************)
(* Tiered Decision Engine (AIBrain.decideNextMove)                         *)
(* Math.random() is k / RandomDenominator for k in 0..RandomDenominator-1; *)
(* the engine is the set of results over all draws.  A result is           *)
(*   [move, thought, tested, executed]: thought is the sequence of glyphs  *)
(*   of the returned string (<<>> for null); tested lists the tiers whose  *)
(*   blocks were tested for applicability, executed the tiers whose        *)
(*   selected block ran, with the block, the moves it was given (before),  *)
(*   the moves it returned and its glyph.                                  *)
(***************************************************************************)
RandomDenominator == 4

NoMove == [x |-> -1, y |-> -1, direction |-> "null"]
NoThought == <<>>

RECURSIVE SumWeights(_)
SumWeights(blocks) ==
    IF blocks = <<>> THEN 0 ELSE Head(blocks).weight + SumWeights(Tail(blocks))

\* The selection loop with "random < 0".
RECURSIVE SelectLoopStrict(_, _, _)
SelectLoopStrict(blocks, i, random) ==
    IF i > Len(blocks) THEN 0
    ELSE IF random - RandomDenominator * blocks[i].weight < 0 THEN i
    ELSE SelectLoopStrict(blocks, i + 1, random - RandomDenominator * blocks[i].weight)

\* "random -= block.weight; if (random <= 0) select", with random scaled by
\* RandomDenominator; 0 when the loop ends with no block selected.
RECURSIVE SelectLoop(_, _, _)
SelectLoop(blocks, i, random) ==
    IF i > Len(blocks) THEN 0
    ELSE IF random - RandomDenominator * blocks[i].weight <= 0 THEN i
    ELSE SelectLoop(blocks, i + 1, random - RandomDenominator * blocks[i].weight)

\* The index of the block selected for the draw k / RandomDenominator.
SelectBlock(blocks, k) == SelectLoop(blocks, 1, k * SumWeights(blocks))

\* combineEmotes joining every glyph, the dice included.
combineEmotesKeepDice(emotes) ==
    IF Len(emotes) = 0 THEN NoThought ELSE emotes

combineEmotes(emotes) ==
    IF Len(emotes) = 0 THEN NoThought
    ELSE IF Len(emotes) = 1 THEN <<emotes[1]>>
    ELSE LET filtered == SelectSeq(emotes, LAMBDA e : e # "dice")
         IN  IF Len(filtered) > 0 THEN filtered ELSE <<emotes[1]>>

\* The end of decideNextMove: a uniform pick among the moves left.
FinalPick(moves, emotes, tested, executed) ==
    { [move |-> moves[k],
       thought |-> combineEmotes(IF Len(emotes) = 0 THEN <<"dice">> ELSE emotes),
       tested |-> tested, executed |-> executed] : k \in 1..Len(moves) }

\* The loop without the "result.moves.length === 1" return.
NeverReturnsEarly(result) == FALSE

\* Whether a tier's narrowing to one move ends the decision.
ReturnsOnSingleMove(result) == Len(result.moves) = 1

\* The filter testing the blocks against the legal moves of the position
\* instead of the moves left by the higher tiers.
applicableBlocksOfPosition(tier, ctx, currentMoves) ==
    SelectSeq(tier.blocks,
              LAMBDA b : isBlockApplicable(b, ctx,
                            FilterReversal(getPossibleMoves(ctx.w, ctx.h, ctx.grid, ctx.pos),
                                           ctx.lastDirection)))

\* "tier.blocks.filter(block => this.isBlockApplicable(..., currentMoves))"
applicableBlocks(tier, ctx, currentMoves) ==
    SelectSeq(tier.blocks, LAMBDA b : isBlockApplicable(b, ctx, currentMoves))

\* The loop over the tiers from tierIndex on.
RECURSIVE ProcessTiers(_, _, _, _, _, _, _)
ProcessTiers(ctx, tiers, tierIndex, currentMoves, emotes, tested, executed) ==
    IF tierIndex > Len(tiers) THEN FinalPick(currentMoves, emotes, tested, executed)
    ELSE IF Len(tiers[tierIndex].blocks) = 0
    THEN ProcessTiers(ctx, tiers, tierIndex + 1, currentMoves, emotes, tested, executed)
    ELSE
      LET applicable == applicableBlocks(tiers[tierIndex], ctx, currentMoves)
          tested2 == Append(tested, tierIndex)
      IN  IF Len(applicable) = 0
          THEN ProcessTiers(ctx, tiers, tierIndex + 1, currentMoves, emotes, tested2, executed)
          ELSE UNION {
            LET sel == SelectBlock(applicable, k)
            IN  IF sel = 0
                THEN ProcessTiers(ctx, tiers, tierIndex + 1, currentMoves, emotes,
                                  tested2, executed)
                ELSE
                  LET result == executeBlock(applicable[sel], ctx, currentMoves)
                      executed2 == Append(executed,
                                      [tier |-> tierIndex, type |-> applicable[sel].type,
                                       moves |-> result.moves, block |-> applicable[sel],
                                       before |-> currentMoves, thought |-> result.thought])
                      emotes2 == IF result.thought # "null"
                                 THEN Append(emotes, result.thought) ELSE emotes
                  IN  IF Len(result.moves) > 0
                      THEN IF ReturnsOnSingleMove(result)
                           THEN {[move |-> result.moves[1],
                                  thought |-> combineEmotes(emotes2),
                                  tested |-> tested2, executed |-> executed2]}
                           ELSE ProcessTiers(ctx, tiers, tierIndex + 1, result.moves,
                                             emotes2, tested2, executed2)
                      ELSE ProcessTiers(ctx, tiers, tierIndex + 1, currentMoves, emotes,
                                        tested2, executed2)
            : k \in 0..(RandomDenominator - 1) }

\* decideNextMove without the fall-back to the backward move.
decideNextMoveForwardOnly(ctx, tiers) ==
    LET moves == ForwardMoves(getPossibleMoves(ctx.w, ctx.h, ctx.grid, ctx.pos),
                              ctx.lastDirection)
    IN  IF Len(moves) = 0
        THEN {[move |-> NoMove, thought |-> NoThought, tested |-> <<>>, executed |-> <<>>]}
        ELSE IF Len(moves) = 1
        THEN {[move |-> moves[1], thought |-> NoThought,
               tested |-> <<>>, executed |-> <<>>]}
        ELSE ProcessTiers(ctx, tiers, 1, moves, <<>>, <<>>, <<>>)

decideNextMove(ctx, tiers) ==
    LET possibleMoves == getPossibleMoves(ctx.w, ctx.h, ctx.grid, ctx.pos)
    IN  IF Len(possibleMoves) = 0
        THEN {[move |-> NoMove, thought |-> NoThought, tested |-> <<>>, executed |-> <<>>]}
        ELSE LET moves == FilterReversal(possibleMoves, ctx.lastDirection)
             IN  IF Len(moves) = 1
                 THEN {[move |-> moves[1], thought |-> NoThought,
                        tested |-> <<>>, executed |-> <<>>]}
                 ELSE ProcessTiers(ctx, tiers, 1, moves, <<>>, <<>>, <<>>)

(***************************************************************************)
(* Maze state: getState / restoreState / handleMovement as functions of    *)
(* the saved fields, so that a saved maze is the replay of a key sequence. *)
(***************************************************************************)
\* getState(): {grid, tractorPosition, startPosition, finishPosition}
MazeState(g, t, s, f) ==
    [grid |-> g, tractorPosition |-> t, startPosition |-> s, finishPosition |-> f]

getState == MazeState(grid, tractorPosition, startPosition, finishPosition)

\* The constructor's / reset()'s empty maze: all corn, the centre cell plowed.
FreshState(w, h) ==
    LET t == <<w \div 2, h \div 2>>
    IN  MazeState({t}, t, Null, Null)

\* newX / newY with a step of two cells upwards.
TargetLeap(w, h, t, dir) ==
    CASE dir = "up"    -> <<t[1], Max(0, t[2] - 2)>>
      [] dir = "down"  -> <<t[1], Min(h - 1, t[2] + 1)>>
      [] dir = "left"  -> <<Max(0, t[1] - 1), t[2]>>
      [] dir = "right" -> <<Min(w - 1, t[1] + 1), t[2]>>

\* newX / newY of handleMovement for a held direction.
Target(w, h, t, dir) ==
    CASE dir = "up"    -> <<t[1], Max(0, t[2] - 1)>>
      [] dir = "down"  -> <<t[1], Min(h - 1, t[2] + 1)>>
      [] dir = "left"  -> <<Max(0, t[1] - 1), t[2]>>
      [] dir = "right" -> <<Min(w - 1, t[1] + 1), t[2]>>

\* handleMovement's guard "position changed and the move is valid".
MoveAccepted(w, h, m, dir) ==
    LET n == Target(w, h, m.tractorPosition, dir)
    IN  n # m.tractorPosition /\ canPlow(w, h, m.grid, n[1], n[2])

\* The markers after the tractor moved to n: "if (startPosition === null)
\* startPosition = n; else if (finishPosition === null) finishPosition = n".
MarkStart(w, h, m, n) ==
    IF isOnPerimeter(w, h, n[1], n[2]) /\ m.startPosition = Null
    THEN n ELSE m.startPosition

\* The finish marker without the "finishPosition === null" test.
MarkFinishAgain(w, h, m, n) ==
    IF isOnPerimeter(w, h, n[1], n[2]) /\ m.startPosition # Null
    THEN n ELSE m.finishPosition

MarkFinish(w, h, m, n) ==
    IF isOnPerimeter(w, h, n[1], n[2]) /\ m.startPosition # Null /\ m.finishPosition = Null
    THEN n ELSE m.finishPosition

\* The maze fields after an accepted move: plow the cell, set the markers.
PlowMove(w, h, m, dir) ==
    LET n == Target(w, h, m.tractorPosition, dir)
    IN  [grid |-> m.grid \cup {n},
         tractorPosition |-> n,
         startPosition |-> MarkStart(w, h, m, n),
         finishPosition |-> MarkFinish(w, h, m, n)]

\* A maze saved to localStorage by an earlier session: the fields left by
\* pressing the keys one after the other on the empty maze.
RECURSIVE Replay(_, _, _, _)
Replay(w, h, m, keys) ==
    IF keys = <<>> THEN m
    ELSE Replay(w, h,
            IF MoveAccepted(w, h, m, Head(keys))
            THEN PlowMove(w, h, m, Head(keys)) ELSE m,
            Tail(keys))

\* The key held n times.
Held(key, n) == [i \in 1..n |-> key]

\* The key presses that carved the saved mazes, from the centre of the field
\* (on a 7x7 field the tractor starts at (3,3)).
\* A ring around the cells left of the start column, Entry on the top row
\* and Exit on the left column: on 7x7 eight cells around (2,2), Entry (3,0),
\* Exit (0,1).
RingKeys ==
    Held("up", InitHeight \div 2) \o <<"down">> \o Held("left", InitWidth \div 2)
        \o <<"right", "down", "down">> \o Held("right", (InitWidth \div 2) - 2)
\* A corridor to the perimeter: Entry set, Exit not yet.
EntryKeys == Held("up", InitHeight \div 2)
\* A four-way crossing next to Entry on the left column, with Exit on the top
\* row: on 7x7 the crossing is (1,3), Entry (0,3), Exit (1,0).
CrossKeys ==
    Held("left", InitWidth \div 2) \o <<"right">> \o Held("up", InitHeight \div 2)
        \o Held("down", (InitHeight \div 2) + 1)
\* Entry on the top row with Exit next to it, and the tractor back on the
\* start column one cell below Entry: on 7x7 Entry (3,0), Exit (2,0), the
\* tractor on (3,1).
ForkKeys == Held("up", InitHeight \div 2) \o <<"left", "right", "down">>
\* One unbranched row from the left column to the right column: on 7x7 Entry
\* (0,3), Exit (6,3), InitWidth cells.
CorridorKeys == Held("left", InitWidth \div 2) \o Held("right", InitWidth - 1)
\* Entry next to the top left corner and Exit on the corner, with the start
\* cell on the diagonal of the corner and a stub on either side of it: on
\* 7x7 Entry (1,0), Exit (0,0), open (4,3), (3,3), (2,3), (3,2), (3,1),
\* (2,1), (1,1).
DiagKeys ==
    <<"right", "left", "left", "right">> \o Held("up", (InitHeight \div 2) - 1)
        \o Held("left", (InitWidth \div 2) - 1) \o <<"up", "left">>
SavedKeys == {<<>>, RingKeys, EntryKeys, CrossKeys}

(***************************************************************************)
(* render(): updateStats recomputes both paths when both markers are set;  *)
(* updateToggleState leaves player mode (updateMode, stopAllPlayers) when  *)
(* a marker is missing.                                                    *)
(***************************************************************************)
StatsShortest(w, h, m, old) ==
    IF m.startPosition # Null /\ m.finishPosition # Null
    THEN findShortestPath(w, h, m.grid, m.startPosition, m.finishPosition)
    ELSE old

StatsLongest(w, h, m, old) ==
    IF m.startPosition # Null /\ m.finishPosition # Null
    THEN findLongestPath(w, h, m.grid, m.startPosition, m.finishPosition)
    ELSE old

\* updateToggleState without the branch that leaves player mode.
StaysInPlayerMode(m, mode) == FALSE

\* updateToggleState's branch "in player mode without complete maze".
LeavesPlayerMode(m, mode) ==
    (m.startPosition = Null \/ m.finishPosition = Null) /\ mode = "player"

\* The maze fields become m and render() runs.  sp0, lp0 are the path fields
\* before render (restoreState and reset null them); mode0, players0 and
\* paused0 are the player-side fields the handler has set before render.
Render(w, h, m, sp0, lp0, mode0, players0, paused0) ==
    /\ grid' = m.grid
    /\ tractorPosition' = m.tractorPosition
    /\ startPosition' = m.startPosition
    /\ finishPosition' = m.finishPosition
    /\ shortestPath' = StatsShortest(w, h, m, sp0)
    /\ longestPath' = StatsLongest(w, h, m, lp0)
    /\ gameMode' = IF LeavesPlayerMode(m, mode0) THEN "farmer" ELSE mode0
    /\ players' = IF LeavesPlayerMode(m, mode0) THEN <<>> ELSE players0
    /\ isPaused' = IF LeavesPlayerMode(m, mode0) THEN FALSE ELSE paused0

(***************************************************************************)
(* Init: the constructor, with or without a maze in localStorage.          *)
(***************************************************************************)
EmptyTiers == << [blocks |-> <<>>], [blocks |-> <<>>], [blocks |-> <<>>] >>

InitWith(keys) ==
        LET m == Replay(InitWidth, InitHeight, FreshState(InitWidth, InitHeight), keys)
        IN  /\ width = InitWidth
            /\ height = InitHeight
            /\ grid = m.grid
            /\ tractorPosition = m.tractorPosition
            /\ startPosition = m.startPosition
            /\ finishPosition = m.finishPosition
            /\ shortestPath = StatsShortest(InitWidth, InitHeight, m, NullPath)
            /\ longestPath = StatsLongest(InitWidth, InitHeight, m, NullPath)
            /\ undoHistory = <<m>>
            /\ initialState = m
            /\ gameMode = "farmer"
            /\ isMoving = FALSE
            /\ isPaused = FALSE
            /\ currentTierConfig = EmptyTiers
            /\ players = <<>>

Init == \E keys \in SavedKeys : InitWith(keys)

(***************************************************************************)
(* Farmer operations                                                       *)
(***************************************************************************)
\* handleMovement() with direction dir held, once isMoving is false.
HandleMovementBody(dir) ==
    /\ gameMode # "player"
    /\ Len(undoHistory) < MaxHistory
    /\ UNCHANGED <<width, height, initialState, currentTierConfig>>
    /\ IF MoveAccepted(width, height, getState, dir)
       THEN /\ undoHistory' = Append(undoHistory, getState)
            /\ Render(width, height, PlowMove(width, height, getState, dir),
                      shortestPath, longestPath, gameMode, players, isPaused)
            /\ isMoving' = TRUE
       ELSE /\ UNCHANGED <<grid, tractorPosition, startPosition, finishPosition,
                           shortestPath, longestPath, undoHistory, playVars>>
            /\ isMoving' = FALSE

\* keydown of a movement key: keys[key] = true; handleMovement().
KeyDown(dir) ==
    /\ ~isMoving
    /\ HandleMovementBody(dir)

\* The 200 ms timer of handleMovement: isMoving = false, and handleMovement()
\* again when a key is still held.
AnimationDone ==
    /\ isMoving
    /\ \/ /\ isMoving' = FALSE
          /\ UNCHANGED <<width, height, grid, tractorPosition, startPosition,
                         finishPosition, shortestPath, longestPath, undoHistory,
                         initialState, playVars>>
       \/ \E dir \in Dirs : HandleMovementBody(dir)

\* undo(): 'u' key or the undo button.
Undo ==
    /\ Len(undoHistory) > 1
    /\ LET popped == SubSeq(undoHistory, 1, Len(undoHistory) - 1)
       IN  /\ undoHistory' = popped
           /\ Render(width, height, popped[Len(popped)], NullPath, NullPath,
                     gameMode, players, isPaused)
    /\ UNCHANGED <<width, height, initialState, isMoving, currentTierConfig>>

\* resetMaze(): 'r' key or the reset button.
ResetMaze ==
    /\ Render(width, height, initialState, NullPath, NullPath,
              gameMode, players, isPaused)
    /\ undoHistory' = <<initialState>>
    /\ UNCHANGED <<width, height, initialState, isMoving, currentTierConfig>>

\* reset(width, height): the settings inputs, when a dimension changed.
ResizeReset(w, h) ==
    /\ w # width \/ h # height
    /\ width' = w
    /\ height' = h
    /\ Render(w, h, FreshState(w, h), NullPath, NullPath,
              gameMode, players, isPaused)
    /\ undoHistory' = <<FreshState(w, h)>>
    /\ initialState' = FreshState(w, h)
    /\ UNCHANGED <<isMoving, currentTierConfig>>

(***************************************************************************)
(* Player-mode operations of CornMazeGame.  The player sidebar (spawn,     *)
(* pause, clear, tier blocks) is displayed in player mode only.            *)
(***************************************************************************)
\* The logic-block pool: every block type with each of its modes.
PoolBlocks ==
    { [type |-> "wallFollowing", mode |-> "right"],
      [type |-> "wallFollowing", mode |-> "left"],
      [type |-> "lineOfSight", mode |-> "null"],
      [type |-> "towardExit", mode |-> "null"],
      [type |-> "checkMap", mode |-> "null"],
      [type |-> "backtracking", mode |-> "avoid"],
      [type |-> "backtracking", mode |-> "seek"],
      [type |-> "social", mode |-> "follow"],
      [type |-> "social", mode |-> "avoid"],
      [type |-> "randomGuesser", mode |-> "null"] }

TierIndexes == 1..3

BlockCount(tiers) ==
    Len(tiers[1].blocks) + Len(tiers[2].blocks) + Len(tiers[3].blocks)

\* The blocks held by the tiers being configured and by the players' brains.
RECURSIVE PlayersBlockCount(_)
PlayersBlockCount(ps) ==
    IF ps = <<>> THEN 0 ELSE BlockCount(Head(ps).tiers) + PlayersBlockCount(Tail(ps))

BlocksInUse == BlockCount(currentTierConfig) + PlayersBlockCount(players)

\* The mode toggle of the header.
ToggleMode ==
    /\ IF gameMode = "farmer"
       THEN /\ startPosition # Null /\ finishPosition # Null
            /\ Render(width, height, getState, shortestPath, longestPath,
                      "player", players, isPaused)
       ELSE Render(width, height, getState, shortestPath, longestPath,
                   "farmer", <<>>, FALSE)
    /\ UNCHANGED <<width, height, undoHistory, initialState, isMoving, currentTierConfig>>

\* AddBlockToTier that also puts the block into the brains of the players.
AddBlockToTierShared(tierIndex, b) ==
    /\ gameMode = "player"
    /\ BlocksInUse < MaxBlocks
    /\ currentTierConfig' =
          [currentTierConfig EXCEPT ![tierIndex].blocks =
              Append(@, [type |-> b.type, weight |-> WeightUnit, mode |-> b.mode])]
    /\ players' = [i \in DOMAIN players |->
                      [players[i] EXCEPT !.tiers[tierIndex].blocks =
                          Append(@, [type |-> b.type, weight |-> WeightUnit, mode |-> b.mode])]]
    /\ UNCHANGED <<mazeVars, gameMode, isPaused>>

\* A pool block dropped on a tier: the drop handler's duplicate test, then
\* addBlockToTier (weight 1, which normalizeTierWeights leaves alone).
AddBlockToTier(tierIndex, b) ==
    /\ gameMode = "player"
    /\ BlocksInUse < MaxBlocks
    /\ ~\E k \in DOMAIN currentTierConfig[tierIndex].blocks :
            /\ currentTierConfig[tierIndex].blocks[k].type = b.type
            /\ currentTierConfig[tierIndex].blocks[k].mode = b.mode
    /\ currentTierConfig' =
          [currentTierConfig EXCEPT ![tierIndex].blocks =
              Append(@, [type |-> b.type, weight |-> WeightUnit, mode |-> b.mode])]
    /\ UNCHANGED <<mazeVars, gameMode, isPaused, players>>

\* The sequence without its k-th element (splice(k, 1)).
RemoveAt(seq, k) == SubSeq(seq, 1, k - 1) \o SubSeq(seq, k + 1, Len(seq))

\* A tier block dropped on the pool or outside the tiers: removeBlockFromTier.
\* The weights of the blocks left are positive, so normalizeTierWeights keeps
\* them.
removeBlockFromTier(tierIndex, blockIndex) ==
    /\ gameMode = "player"
    /\ blockIndex \in DOMAIN currentTierConfig[tierIndex].blocks
    /\ currentTierConfig' =
          [currentTierConfig EXCEPT ![tierIndex].blocks = RemoveAt(@, blockIndex)]
    /\ UNCHANGED <<mazeVars, gameMode, isPaused, players>>

\* A tier block dropped on a tier: the drop handler's duplicate test (which
\* also refuses a drop on the block's own tier), then moveBlockBetweenTiers:
\* the block goes to the end of the target tier with weight 1.
moveBlockBetweenTiers(fromTierIndex, blockIndex, toTierIndex) ==
    /\ gameMode = "player"
    /\ blockIndex \in DOMAIN currentTierConfig[fromTierIndex].blocks
    /\ LET block == currentTierConfig[fromTierIndex].blocks[blockIndex]
       IN  /\ ~\E k \in DOMAIN currentTierConfig[toTierIndex].blocks :
                  /\ currentTierConfig[toTierIndex].blocks[k].type = block.type
                  /\ currentTierConfig[toTierIndex].blocks[k].mode = block.mode
           /\ currentTierConfig' =
                 [currentTierConfig EXCEPT
                    ![fromTierIndex].blocks = RemoveAt(@, blockIndex),
                    ![toTierIndex].blocks = Append(@, [block EXCEPT !.weight = WeightUnit])]
    /\ UNCHANGED <<mazeVars, gameMode, isPaused, players>>

\* The divider between two neighbouring blocks of a tier dragged
\* (setupResizer): the left block gets newLeftWeight, between 10% and 90% of
\* the weight of the pair, and the right block the rest.
ResizeBlocks(tierIndex, leftBlockIndex, newLeftWeight) ==
    /\ gameMode = "player"
    /\ leftBlockIndex + 1 \in DOMAIN currentTierConfig[tierIndex].blocks
    /\ LET blocks == currentTierConfig[tierIndex].blocks
           totalWeight == blocks[leftBlockIndex].weight + blocks[leftBlockIndex + 1].weight
       IN  /\ 10 * newLeftWeight >= totalWeight
           /\ 10 * newLeftWeight <= 9 * totalWeight
           /\ newLeftWeight # blocks[leftBlockIndex].weight
           /\ currentTierConfig' =
                 [currentTierConfig EXCEPT
                    ![tierIndex].blocks[leftBlockIndex].weight = newLeftWeight,
                    ![tierIndex].blocks[leftBlockIndex + 1].weight =
                        totalWeight - newLeftWeight]
    /\ UNCHANGED <<mazeVars, gameMode, isPaused, players>>

\* A pending callback of a player: move(), or the thinking callback, whose
\* closure holds the decision (decision.move is the move it will commit).
NoDecision == [move |-> NoMove, thought |-> NoThought, tested |-> <<>>, executed |-> <<>>]
MoveTimer == [kind |-> "move", decision |-> NoDecision]
ThinkTimer(d) == [kind |-> "think", decision |-> d]

\* A new player that does not take over the game's pause.
NewPlayerRunning(start, tiers, paused) ==
    [position |-> start,
     visited |-> {start},
     visitCounts |-> (start :> 1),
     path |-> <<start>>,
     isActive |-> TRUE,
     isFinished |-> FALSE,
     isRemoved |-> FALSE,
     lastDirection |-> "null",
     currentThought |-> NoThought,
     isPaused |-> FALSE,
     tiers |-> tiers,
     pending |-> {MoveTimer},
     moveInterval |-> MoveTimer,
     removalPending |-> FALSE]

\* new Player(emoji, brain, startPosition, game), isPaused set by spawnPlayer,
\* then startMoving().
NewPlayer(start, tiers, paused) ==
    [position |-> start,
     visited |-> {start},
     visitCounts |-> (start :> 1),
     path |-> <<start>>,
     isActive |-> TRUE,
     isFinished |-> FALSE,
     isRemoved |-> FALSE,
     lastDirection |-> "null",
     currentThought |-> NoThought,
     isPaused |-> paused,
     tiers |-> tiers,
     pending |-> {MoveTimer},
     moveInterval |-> MoveTimer,
     removalPending |-> FALSE]

spawnPlayer ==
    /\ gameMode = "player"
    /\ startPosition # Null
    /\ Len(players) < MaxPlayers
    /\ currentTierConfig' = EmptyTiers
    /\ Render(width, height, getState, shortestPath, longestPath, gameMode,
              Append(players, NewPlayer(startPosition, currentTierConfig, isPaused)),
              isPaused)
    /\ UNCHANGED <<width, height, undoHistory, initialState, isMoving>>

\* togglePausePlay that sets a new tick timer for every player on resume.
togglePausePlayKick ==
    /\ gameMode = "player"
    /\ isPaused' = ~isPaused
    /\ players' = [i \in DOMAIN players |->
                      IF isPaused
                      THEN [players[i] EXCEPT !.isPaused = FALSE,
                                              !.pending = @ \cup {MoveTimer},
                                              !.moveInterval = MoveTimer]
                      ELSE [players[i] EXCEPT !.isPaused = TRUE]]
    /\ UNCHANGED <<mazeVars, gameMode, currentTierConfig>>

\* togglePausePlay that also restarts every player.
togglePausePlayRestart ==
    /\ gameMode = "player"
    /\ isPaused' = ~isPaused
    /\ players' = [i \in DOMAIN players |->
                      [players[i] EXCEPT !.isPaused = ~isPaused, !.isActive = TRUE]]
    /\ UNCHANGED <<mazeVars, gameMode, currentTierConfig>>

togglePausePlay ==
    /\ gameMode = "player"
    /\ isPaused' = ~isPaused
    /\ players' = [i \in DOMAIN players |-> [players[i] EXCEPT !.isPaused = ~isPaused]]
    /\ UNCHANGED <<mazeVars, gameMode, currentTierConfig>>

\* The clear-players button.
stopAllPlayers ==
    /\ gameMode = "player"
    /\ Render(width, height, getState, shortestPath, longestPath, gameMode,
              <<>>, FALSE)
    /\ UNCHANGED <<width, height, undoHistory, initialState, isMoving, currentTierConfig>>

(***************************************************************************)
(* Agent Runtime (Player.startMoving): the callbacks of player i.          *)
(***************************************************************************)
Schedule(p, t) == [p EXCEPT !.pending = @ \cup {t}, !.moveInterval = t]

DecisionContext(i) ==
    [w |-> width, h |-> height, grid |-> grid,
     pos |-> players[i].position,
     visited |-> players[i].visited,
     visitCounts |-> players[i].visitCounts,
     finish |-> finishPosition,
     lastDirection |-> players[i].lastDirection,
     allPlayers |-> players,
     index |-> i]

\* The move executed without counting a repeated visit.
CommitMoveFirstVisit(p, m) ==
    [p EXCEPT !.position = <<m.x, m.y>>,
              !.lastDirection = m.direction,
              !.path = Append(@, <<m.x, m.y>>),
              !.visited = @ \cup {<<m.x, m.y>>},
              !.visitCounts = (<<m.x, m.y>> :> 1) @@ @]

\* "Execute the move": position, lastDirection, path, visited, visitCounts.
CommitMove(p, m) ==
    [p EXCEPT !.position = <<m.x, m.y>>,
              !.lastDirection = m.direction,
              !.path = Append(@, <<m.x, m.y>>),
              !.visited = @ \cup {<<m.x, m.y>>},
              !.visitCounts = (<<m.x, m.y>> :> (VisitCount(p.visitCounts, m) + 1)) @@ @]

\* Player i becomes p and every other player takes over its last direction;
\* then render().
TickDoneShared(i, p) ==
    /\ Render(width, height, getState, shortestPath, longestPath, gameMode,
              [j \in DOMAIN players |->
                  IF j = i THEN p
                  ELSE [players[j] EXCEPT !.lastDirection = p.lastDirection]],
              isPaused)
    /\ UNCHANGED <<width, height, undoHistory, initialState, isMoving, currentTierConfig>>

\* Player i becomes p; then render().
TickDone(i, p) ==
    /\ Render(width, height, getState, shortestPath, longestPath, gameMode,
              [players EXCEPT ![i] = p], isPaused)
    /\ UNCHANGED <<width, height, undoHistory, initialState, isMoving, currentTierConfig>>

\* forwardMoves that keeps the backward move.
TickAllMoves(p) == getPossibleMoves(width, height, grid, p.position)

\* forwardMoves of move(): the legal moves without the backward one.
TickForwardMoves(p) ==
    ForwardMoves(getPossibleMoves(width, height, grid, p.position), p.lastDirection)

\* A brain of one Wall Following or Check Map block in the first tier.
Guided(tiers) ==
    /\ Len(tiers[1].blocks) = 1
    /\ tiers[1].blocks[1].type \in {"wallFollowing", "checkMap"}
    /\ tiers[2].blocks = <<>>
    /\ tiers[3].blocks = <<>>

\* The number of moves a player's run is followed for.
MoveBudget(p) == IF Guided(p.tiers) THEN MaxGuidedMoves ELSE MaxAgentMoves

\* move(): the tick of player i.
MoveCallback(i) ==
    /\ MoveTimer \in players[i].pending
    /\ LET p == [players[i] EXCEPT !.pending = @ \ {MoveTimer}]
       IN  IF ~p.isActive \/ p.isFinished \/ p.isPaused
           THEN TickDone(i, IF p.isPaused THEN Schedule(p, MoveTimer) ELSE p)
           ELSE IF finishPosition # Null /\ p.position = finishPosition
           THEN TickDone(i, [p EXCEPT !.isFinished = TRUE, !.isActive = FALSE,
                                      !.currentThought = <<"party">>,
                                      !.removalPending = TRUE])
           ELSE IF Len(TickForwardMoves(p)) = 1
           THEN \* one forward option: taken at once, no thought
                /\ Len(p.path) <= MoveBudget(p)
                /\ TickDone(i, Schedule(CommitMove([p EXCEPT !.currentThought = NoThought],
                                                   TickForwardMoves(p)[1]), MoveTimer))
           ELSE \E d \in decideNextMove(DecisionContext(i), p.tiers) :
                  IF d.move = NoMove
                  THEN \* no valid moves: the player is stuck
                       TickDone(i, [p EXCEPT !.isActive = FALSE,
                                             !.currentThought = <<"cross">>])
                  ELSE \* the thinking pause before the move
                       /\ Len(p.path) <= MoveBudget(p)
                       /\ TickDone(i, Schedule([p EXCEPT !.currentThought = d.thought],
                                               ThinkTimer(d)))

\* The callback that ends the thinking pause without looking at isActive,
\* isFinished and isPaused.
ThinkCallbackCommits(i) ==
    \E t \in players[i].pending :
        /\ t.kind = "think"
        /\ LET p == [players[i] EXCEPT !.pending = @ \ {t}]
           IN  TickDone(i, Schedule([CommitMove(p, t.decision.move) EXCEPT
                                        !.currentThought = NoThought], MoveTimer))

\* The callback that ends the thinking pause of player i.
ThinkCallback(i) ==
    \E t \in players[i].pending :
        /\ t.kind = "think"
        /\ LET p == [players[i] EXCEPT !.pending = @ \ {t}]
           IN  IF ~p.isActive \/ p.isFinished \/ p.isPaused
               THEN TickDone(i, IF p.isPaused THEN Schedule(p, MoveTimer) ELSE p)
               ELSE TickDone(i, Schedule([CommitMove(p, t.decision.move) EXCEPT
                                             !.currentThought = NoThought], MoveTimer))

\* The 1 s timer set when the player finished: isRemoved = true; render().
RemovalCallback(i) ==
    /\ players[i].removalPending
    /\ TickDone(i, [players[i] EXCEPT !.removalPending = FALSE, !.isRemoved = TRUE])

NextPlay ==
    \/ \E t \in TierIndexes, b \in PoolBlocks : AddBlockToTier(t, b)
    \/ \E t \in TierIndexes, k \in 1..MaxBlocks : removeBlockFromTier(t, k)
    \/ \E f \in TierIndexes, k \in 1..MaxBlocks, t \in TierIndexes :
          moveBlockBetweenTiers(f, k, t)
    \/ \E t \in TierIndexes, k \in 1..MaxBlocks, w \in 1..(2 * WeightUnit) :
          ResizeBlocks(t, k, w)
    \/ spawnPlayer
    \/ togglePausePlay
    \/ stopAllPlayers
    \/ \E i \in DOMAIN players : MoveCallback(i)
    \/ \E i \in DOMAIN players : ThinkCallback(i)
    \/ \E i \in DOMAIN players : RemovalCallback(i)

\* The farmer's side: the tractor, undo, the resets and the mode toggle.
NextMaze ==
    \/ \E dir \in Dirs : KeyDown(dir)
    \/ AnimationDone
    \/ Undo
    \/ ResetMaze
    \/ \E w \in Sizes, h \in Sizes : ResizeReset(w, h)
    \/ ToggleMode

SpecMaze == Init /\ [][NextMaze]_vars

\* The carving of one field: the tractor and undo.
NextCarve ==
    \/ \E dir \in Dirs : KeyDown(dir)
    \/ AnimationDone
    \/ Undo

SpecCarve == Init /\ [][NextCarve]_vars

\* Every operation of the program.
Next == NextMaze \/ NextPlay

Spec == Init /\ [][Next]_vars

\* One player at a time configured, spawned and left to run on the crossing maze.
NextDecide ==
    \/ ToggleMode
    \/ \E t \in TierIndexes, b \in PoolBlocks : AddBlockToTier(t, b)
    \/ players = <<>> /\ spawnPlayer
    \/ \E i \in DOMAIN players : MoveCallback(i)
    \/ \E i \in DOMAIN players : ThinkCallback(i)

SpecDecide == InitWith(CrossKeys) /\ [][NextDecide]_vars

\* A decision context drawn for the brain: a player on an open cell (one of
\* cells) of a saved maze that arrived there in direction dir from an open
\* cell it has seen, or stands on Entry and has not moved, with two visits
\* counted on the neighbouring cells in seen, and with the given tiers.
DrawnPlayer(pos, dir, seen, tiers) ==
    [NewPlayer(pos, tiers, FALSE) EXCEPT
        !.lastDirection = dir,
        !.visitCounts = [c \in seen \cup {pos} |-> IF c = pos THEN 1 ELSE 2],
        !.visited = seen \cup {pos}]

CellsAround(pos) ==
    {<<pos[1] + directionDeltas(d)[1], pos[2] + directionDeltas(d)[2]>> : d \in Dirs}

InitDrawn(keys, cells, tiersSet) ==
    LET m == Replay(InitWidth, InitHeight, FreshState(InitWidth, InitHeight), keys)
    IN  /\ width = InitWidth
        /\ height = InitHeight
        /\ grid = m.grid
        /\ tractorPosition = m.tractorPosition
        /\ startPosition = m.startPosition
        /\ finishPosition = m.finishPosition
        /\ shortestPath = StatsShortest(InitWidth, InitHeight, m, NullPath)
        /\ longestPath = StatsLongest(InitWidth, InitHeight, m, NullPath)
        /\ undoHistory = <<m>>
        /\ initialState = m
        /\ gameMode = "player"
        /\ isMoving = FALSE
        /\ isPaused = FALSE
        /\ currentTierConfig = EmptyTiers
        /\ \E pos \in m.grid \cap cells, dir \in Dirs \cup {"null"}, tiers \in tiersSet :
              /\ \E seen \in SUBSET (CellsAround(pos) \cap m.grid) :
                    /\ IF dir = "null"
                       THEN pos = m.startPosition /\ seen = {}
                       ELSE <<pos[1] - directionDeltas(dir)[1],
                              pos[2] - directionDeltas(dir)[2]>> \in seen
                    /\ players = <<DrawnPlayer(pos, dir, seen, tiers)>>

\* A block of the pool with a weight.
Weighted(type, mode, weight) == [type |-> type, weight |-> weight, mode |-> mode]

\* The brains with one block of the kinds that narrow by direction, visit
\* count, distance, map or sight.
BlockTiers ==
    {[EmptyTiers EXCEPT ![1].blocks = <<Weighted(b.type, b.mode, WeightUnit)>>] :
        b \in {b \in PoolBlocks :
                  b.type \in {"wallFollowing", "backtracking", "towardExit", "checkMap",
                               "lineOfSight"}}}

\* The callbacks of the drawn player.
NextBrain ==
    \/ \E i \in DOMAIN players : MoveCallback(i)
    \/ \E i \in DOMAIN players : ThinkCallback(i)
    \/ \E i \in DOMAIN players : RemovalCallback(i)

\* Single blocks decided with on the crossing maze and the diagonal maze.
AllCells == (0..(InitWidth - 1)) \X (0..(InitHeight - 1))

SpecBlocks ==
    /\ \E keys \in {CrossKeys, DiagKeys} : InitDrawn(keys, AllCells, BlockTiers)
    /\ [][NextBrain]_vars

\* The brains for the weighted draw: in the first tier one block, or two
\* with the weights 0:0, 0:1, 1:1 or 3:1, and in the second tier no block or
\* one.
DrawWeights ==
    {<<0, 0>>, <<0, WeightUnit>>, <<WeightUnit, WeightUnit>>,
     <<3 * WeightUnit, WeightUnit>>}

FirstTierBlocks ==
    {b \in PoolBlocks : \/ b.type = "randomGuesser"
                        \/ (b.type = "backtracking" /\ b.mode = "avoid")
                        \/ (b.type = "wallFollowing" /\ b.mode = "right")}

SecondTierBlocks ==
    {b \in PoolBlocks : \/ b.type \in {"towardExit", "randomGuesser"}
                        \/ (b.type = "wallFollowing" /\ b.mode = "right")}

FirstTiers ==
    {<<>>}
    \cup {<<Weighted(b.type, b.mode, w)>> : b \in FirstTierBlocks, w \in {0, WeightUnit}}
    \cup UNION {{<<Weighted(a.type, a.mode, w[1]), Weighted(b.type, b.mode, w[2])>> :
                    b \in FirstTierBlocks \ {a}, w \in DrawWeights} :
                 a \in FirstTierBlocks}

SecondTiers ==
    {<<>>} \cup {<<Weighted(b.type, b.mode, WeightUnit)>> : b \in SecondTierBlocks}

DrawTiers ==
    {<<[blocks |-> t1], [blocks |-> t2], [blocks |-> <<>>]>> :
        t1 \in FirstTiers, t2 \in SecondTiers}

\* The crossing of the crossing maze.
Crossing == <<1, InitHeight \div 2>>

\* Weighted brains deciding on the crossing.
SpecDraw == InitDrawn(CrossKeys, {Crossing}, DrawTiers) /\ [][NextBrain]_vars


\* The tier editor and the spawn button: blocks added, removed, moved and
\* re-weighted, players spawned and cleared.
NextTiers ==
    \/ ToggleMode
    \/ \E t \in TierIndexes, b \in PoolBlocks : AddBlockToTier(t, b)
    \/ \E t \in TierIndexes, k \in 1..MaxBlocks : removeBlockFromTier(t, k)
    \/ \E f \in TierIndexes, k \in 1..MaxBlocks, t \in TierIndexes :
          moveBlockBetweenTiers(f, k, t)
    \/ \E t \in TierIndexes, k \in 1..MaxBlocks, w \in 1..(2 * WeightUnit) :
          ResizeBlocks(t, k, w)
    \/ spawnPlayer
    \/ stopAllPlayers

SpecTiers == InitWith(CrossKeys) /\ [][NextTiers]_vars

\* The farmer and the players together on the fork maze: the tractor, undo and
\* the resets (their keys work in both modes), the mode toggle, and one player
\* at a time spawned with empty tiers, paused, cleared and left to run.
NextRun ==
    \/ \E dir \in Dirs : KeyDown(dir)
    \/ AnimationDone
    \/ Undo
    \/ ResetMaze
    \/ \E w \in Sizes, h \in Sizes : ResizeReset(w, h)
    \/ ToggleMode
    \/ players = <<>> /\ spawnPlayer
    \/ togglePausePlay
    \/ stopAllPlayers
    \/ \E i \in DOMAIN players : MoveCallback(i)
    \/ \E i \in DOMAIN players : ThinkCallback(i)
    \/ \E i \in DOMAIN players : RemovalCallback(i)

SpecRun == InitWith(ForkKeys) /\ [][NextRun]_vars

\* One player at a time configured, spawned and left to run on the corridor
\* (no thinking pause is ever scheduled there).
NextCorridor ==
    \/ ToggleMode
    \/ \E t \in TierIndexes, b \in PoolBlocks : AddBlockToTier(t, b)
    \/ players = <<>> /\ spawnPlayer
    \/ \E i \in DOMAIN players : MoveCallback(i)
    \/ \E i \in DOMAIN players : RemovalCallback(i)

SpecCorridor == InitWith(CorridorKeys) /\ [][NextCorridor]_vars

\* Fields of few enough open cells for a walk along every wall to fit the
\* moves a guided run is followed for.
MaxOpen == (MaxGuidedMoves \div 2) + 1

GuideBlocks == {b \in PoolBlocks : b.type \in {"wallFollowing", "checkMap"}}

GuidedKeys == {<<>>, EntryKeys, ForkKeys, CrossKeys, DiagKeys, CorridorKeys, RingKeys}

\* The farmer carves a field, switches to player mode, drops one Wall
\* Following or Check Map block on the first tier and spawns one player,
\* which is left to run, never paused or stopped.
NextGuided ==
    \/ /\ players = <<>>
       /\ Cardinality(grid) < MaxOpen
       /\ \E dir \in Dirs : KeyDown(dir)
    \/ /\ players = <<>>
       /\ Cardinality(grid) < MaxOpen
       /\ AnimationDone
    \/ players = <<>> /\ ToggleMode
    \/ /\ currentTierConfig = EmptyTiers
       /\ \E b \in GuideBlocks : AddBlockToTier(1, b)
    \/ /\ players = <<>>
       /\ currentTierConfig # EmptyTiers
       /\ spawnPlayer
    \/ \E i \in DOMAIN players : MoveCallback(i)
    \/ \E i \in DOMAIN players : ThinkCallback(i)
    \/ \E i \in DOMAIN players : RemovalCallback(i)

InitGuided == \E keys \in GuidedKeys : InitWith(keys)

SpecGuided == InitGuided /\ [][NextGuided]_vars

\* A tick of some player is due and its callback changes the state: the
\* enabling condition of <<MoveCallback(i)>>_vars, written out.
MoveDue ==
    \E i \in DOMAIN players :
        LET p == players[i]
        IN  /\ MoveTimer \in p.pending
            /\ ~(p.isPaused /\ p.moveInterval = MoveTimer)
            /\ (/\ p.isActive /\ ~p.isFinished /\ ~p.isPaused
                /\ ~(finishPosition # Null /\ p.position = finishPosition)
                /\ Len(TickAllMoves(p)) > 0)
                   => Len(p.path) <= MoveBudget(p)

\* The end of a thinking pause of some player is due: the enabling
\* condition of <<ThinkCallback(i)>>_vars, written out.
ThinkDue ==
    \E i \in DOMAIN players : \E t \in players[i].pending :
        /\ t.kind = "think"
        /\ ~(players[i].isPaused /\ players[i].moveInterval = MoveTimer
                /\ MoveTimer \in players[i].pending)

\* The timers of a running player fire: its tick and the end of its
\* thinking pause are not postponed forever. This is the weak fairness
\* WF_vars of the two callbacks, with their enabling conditions written out.
TimersFire ==
    /\ \/ []<>~MoveDue
       \/ []<><<\E i \in 1..MaxPlayers : i \in DOMAIN players /\ MoveCallback(i)>>_vars
    /\ \/ []<>~ThinkDue
       \/ []<><<\E i \in 1..MaxPlayers : i \in DOMAIN players /\ ThinkCallback(i)>>_vars

SpecGuidedLive == SpecGuided /\ TimersFire

\* Several players with Social blocks in the first tier, spawned, paused,
\* cleared and left to run on the fork maze.
SocialBlocks == {b \in PoolBlocks : b.type = "social"}

NextCrowd ==
    \/ ToggleMode
    \/ \E b \in SocialBlocks : AddBlockToTier(1, b)
    \/ spawnPlayer
    \/ togglePausePlay
    \/ stopAllPlayers
    \/ \E i \in DOMAIN players : MoveCallback(i)
    \/ \E i \in DOMAIN players : ThinkCallback(i)
    \/ \E i \in DOMAIN players : RemovalCallback(i)

SpecCrowd == InitWith(ForkKeys) /\ [][NextCrowd]_vars

(***************************************************************************)
(* Maze Generator: the properties of the carved maze.                      *)
(***************************************************************************)
Cells == (0..(width - 1)) \X (0..(height - 1))

\* The four cells of the 2x2 block whose top-left cell is c.
BlockAt(c) == {c, <<c[1] + 1, c[2]>>, <<c[1], c[2] + 1>>, <<c[1] + 1, c[2] + 1>>}

Blocks == {BlockAt(c) : c \in (0..(width - 2)) \X (0..(height - 2))}

Adjacent(a, b) ==
    \/ a[1] = b[1] /\ (a[2] = b[2] + 1 \/ b[2] = a[2] + 1)
    \/ a[2] = b[2] /\ (a[1] = b[1] + 1 \/ b[1] = a[1] + 1)

PerimeterCells == {c \in Cells : c[1] = 0 \/ c[1] = width - 1 \/ c[2] = 0 \/ c[2] = height - 1}

MarkersSet == startPosition # Null /\ finishPosition # Null

\* C1: after any sequence of legal carves, interleaved with undo and
\* resetMaze (and the resize reset), no 2x2 block of cells is fully open.
C1_No2x2Open == \A b \in Blocks : ~(b \subseteq grid)

\* C1 at work: moves were made, and the tractor stands in a block with three
\* open cells, next to the fourth, which canPlow refuses.
C1_Witness ==
    /\ Len(undoHistory) > 1
    /\ \E b \in Blocks : \E c \in b :
          /\ b \ {c} \subseteq grid
          /\ c \notin grid
          /\ tractorPosition \in b
          /\ Adjacent(tractorPosition, c)
          /\ ~isOnPerimeter(width, height, c[1], c[2])
          /\ ~canPlow(width, height, grid, c[1], c[2])

\* C2: at most two perimeter cells are open, in every reachable state.
C2_PerimeterAtMostTwo == Cardinality(grid \cap PerimeterCells) <= 2

\* C2 at work: two perimeter cells are open and the tractor, after a move,
\* stands next to a third perimeter cell, which canPlow refuses.
C2_Witness ==
    /\ Len(undoHistory) > 1
    /\ Cardinality(grid \cap PerimeterCells) = 2
    /\ \E c \in PerimeterCells \ grid :
          /\ Adjacent(tractorPosition, c)
          /\ \A b \in Blocks : c \in b => ~(b \ {c} \subseteq grid)
          /\ ~canPlow(width, height, grid, c[1], c[2])

\* C9: in every reachable state with both markers set, Entry and Exit are
\* open perimeter cells and are two different cells.
C9_EntryExitDistinct ==
    MarkersSet =>
        /\ startPosition \in grid \cap PerimeterCells
        /\ finishPosition \in grid \cap PerimeterCells
        /\ startPosition # finishPosition

\* A step of undo, resetMaze or reset(width, height).
UndoStep == Undo
FullResetStep == ResetMaze \/ \E w \in Sizes, h \in Sizes : ResizeReset(w, h)

\* C10, as the code has it: once both markers are set, no operation other
\* than a full reset or an undo changes or unsets either of them.
C10_MarkersKeptButUndo ==
    [][MarkersSet =>
          \/ startPosition' = startPosition /\ finishPosition' = finishPosition
          \/ FullResetStep
          \/ UndoStep]_vars

\* C10 as stated: once both markers are set, no operation other than a full
\* reset changes or unsets either of them.
C10_MarkersKept ==
    [][MarkersSet =>
          \/ startPosition' = startPosition /\ finishPosition' = finishPosition
          \/ FullResetStep]_vars

\* C10 at work: the last operation was a move of the tractor onto a perimeter
\* cell, made with both markers set, and both markers are as before it.
C10_Witness ==
    /\ MarkersSet
    /\ Len(undoHistory) > 1
    /\ LET before == undoHistory[Len(undoHistory)]
       IN  /\ before.startPosition = startPosition
           /\ before.finishPosition = finishPosition
           /\ before.tractorPosition # tractorPosition
           /\ tractorPosition \in PerimeterCells
           /\ before.grid \cup {tractorPosition} = grid


(***************************************************************************)
(* Move Generator and Path Finder: what the functions return, stated       *)
(* without their code.                                                     *)
(***************************************************************************)
IsCell(c) == c[1] >= 0 /\ c[1] < width /\ c[2] >= 0 /\ c[2] < height

OpenCells == {c \in grid : IsCell(c)}

IsOpen(c) == c \in grid /\ IsCell(c)

OpenNeighbours(c) ==
    {n \in {<<c[1], c[2] - 1>>, <<c[1] + 1, c[2]>>, <<c[1], c[2] + 1>>, <<c[1] - 1, c[2]>>} :
        IsOpen(n)}

DirDelta(d) ==
    CASE d = "up" -> <<0, -1>>
      [] d = "right" -> <<1, 0>>
      [] d = "down" -> <<0, 1>>
      [] d = "left" -> <<-1, 0>>

DirRank(d) ==
    CASE d = "up" -> 1
      [] d = "right" -> 2
      [] d = "down" -> 3
      [] d = "left" -> 4

NeighbourAt(pos, d) == <<pos[1] + DirDelta(d)[1], pos[2] + DirDelta(d)[2]>>

\* The number of cells of a shortest walk from the cells reached so far to
\* target over open cells, 0 when there is none (k cells lead to reached).
RECURSIVE CellsTo(_, _, _)
CellsTo(reached, target, k) ==
    IF target \in reached THEN k
    ELSE LET more == reached \cup UNION {OpenNeighbours(c) : c \in reached}
         IN  IF more = reached THEN 0 ELSE CellsTo(more, target, k + 1)

ShortestCellCount(a, b) == CellsTo({a}, b, 1)

\* p leads from a to b, each step to an orthogonally adjacent open cell.
IsOpenWalk(p, a, b) ==
    /\ Len(p) >= 1
    /\ p[1] = a
    /\ p[Len(p)] = b
    /\ \A k \in 1..(Len(p) - 1) : Adjacent(p[k], p[k + 1]) /\ IsOpen(p[k + 1])

IsSimple(p) == \A j, k \in DOMAIN p : j # k => p[j] # p[k]

\* Every simple walk from a to b, grown one cell at a time.
RECURSIVE GrowPaths(_, _, _)
GrowPaths(frontier, b, done) ==
    IF frontier = {} THEN done
    ELSE LET arrived == {p \in frontier : p[Len(p)] = b}
             grown == UNION {{Append(p, n) :
                                n \in OpenNeighbours(p[Len(p)]) \ {p[k] : k \in DOMAIN p}} :
                             p \in frontier \ arrived}
         IN  GrowPaths(grown, b, done \cup arrived)

SimplePaths(a, b) == GrowPaths({<<a>>}, b, {})

\* C5: getPossibleMoves(pos, grid) returns exactly the in-bounds open
\* orthogonal neighbours of pos, each tagged with its direction, in the order
\* up, right, down, left; never a blocked or out-of-bounds cell; and the
\* empty list iff every in-bounds orthogonal neighbour is blocked.
C5_PossibleMovesExact ==
    \A pos \in Cells :
        LET r == getPossibleMoves(width, height, grid, pos)
        IN  /\ \A k \in DOMAIN r :
                  /\ r[k].direction \in Dirs
                  /\ <<r[k].x, r[k].y>> = NeighbourAt(pos, r[k].direction)
                  /\ IsOpen(<<r[k].x, r[k].y>>)
            /\ \A d \in Dirs :
                  IsOpen(NeighbourAt(pos, d)) =>
                      \E k \in DOMAIN r : r[k].direction = d
            /\ \A j, k \in DOMAIN r :
                  j < k => DirRank(r[j].direction) < DirRank(r[k].direction)
            /\ (r = <<>>) <=> (\A d \in Dirs : ~IsOpen(NeighbourAt(pos, d)))

\* C5 at work: after a move of the tractor the grid has an open cell on the
\* top row or left column with one legal move, a cell with at least three, and
\* a cell with none.
C5_Witness ==
    /\ Len(undoHistory) > 1
    /\ \E pos \in OpenCells :
          /\ pos[1] = 0 \/ pos[2] = 0
          /\ Len(getPossibleMoves(width, height, grid, pos)) = 1
    /\ \E pos \in OpenCells : Len(getPossibleMoves(width, height, grid, pos)) >= 3
    /\ \E pos \in Cells : getPossibleMoves(width, height, grid, pos) = <<>>

\* p is what a shortest-path search from a to b may return.
ShortestResultOk(p, a, b) ==
    IF ShortestCellCount(a, b) = 0
    THEN p = NullPath
    ELSE IsOpenWalk(p, a, b) /\ Len(p) = ShortestCellCount(a, b)

\* C6: findShortestPath returns, when the exit is reachable from the entry
\* over 4-connected open cells, a sequence that starts at the entry, ends at
\* the exit, steps between orthogonally adjacent open cells and has the least
\* possible number of cells; it returns null iff the exit is unreachable.
\* (The game's search from Entry to every perimeter cell, the brain's search
\* from every cell to Exit, and the displayed shortestPath.)
C6_ShortestPathMinimal ==
    /\ startPosition # Null =>
          \A b \in PerimeterCells :
              ShortestResultOk(findShortestPath(width, height, grid, startPosition, b),
                               startPosition, b)
    /\ finishPosition # Null =>
          \A a \in Cells :
              ShortestResultOk(brainFindShortestPath(width, height, grid, a, finishPosition),
                               a, finishPosition)
    /\ MarkersSet => ShortestResultOk(shortestPath, startPosition, finishPosition)

\* C6 at work: after a move, the displayed shortest path has at least three
\* cells, a simple path with more cells exists between the markers, and some
\* perimeter cell is unreachable from Entry.
C6_Witness ==
    /\ MarkersSet
    /\ Len(undoHistory) > 1
    /\ Len(shortestPath) >= 3
    /\ \E p \in SimplePaths(startPosition, finishPosition) : Len(p) > Len(shortestPath)
    /\ \E b \in PerimeterCells : ShortestCellCount(startPosition, b) = 0

\* C7: for every grid with Entry and Exit set, findShortestPath's result has
\* at most as many cells as findLongestPath's when both exist, and the two
\* are null together: both are null iff no open-cell path connects Entry and
\* Exit.  (Entry with every perimeter cell as Exit, and the displayed paths.)
C7_ShortestAtMostLongest ==
    /\ startPosition # Null =>
          \A b \in PerimeterCells :
              LET s == findShortestPath(width, height, grid, startPosition, b)
                  l == findLongestPath(width, height, grid, startPosition, b)
              IN  /\ (s = NullPath) <=> (l = NullPath)
                  /\ (s = NullPath) <=> (ShortestCellCount(startPosition, b) = 0)
                  /\ Len(s) <= Len(l)
    /\ MarkersSet =>
          /\ (shortestPath = NullPath) <=> (longestPath = NullPath)
          /\ Len(shortestPath) <= Len(longestPath)

\* C7 at work: the displayed shortest path is strictly shorter than the
\* displayed longest path, after a move of the tractor.
C7_Witness ==
    /\ MarkersSet
    /\ Len(undoHistory) > 1
    /\ shortestPath # NullPath
    /\ Len(shortestPath) < Len(longestPath)

\* p is what a longest-path search from a to b may return.
LongestResultOk(p, a, b) ==
    IF SimplePaths(a, b) = {}
    THEN p = NullPath
    ELSE /\ IsOpenWalk(p, a, b)
         /\ IsSimple(p)
         /\ \A q \in SimplePaths(a, b) : Len(q) <= Len(p)

\* C8: findLongestPath returns a simple path (no cell repeated) of
\* orthogonally adjacent open cells from Entry to Exit whose cell count is the
\* greatest among all simple open-cell paths from Entry to Exit.
C8_LongestPathMaximal ==
    MarkersSet =>
        /\ LongestResultOk(findLongestPath(width, height, grid, startPosition, finishPosition),
                           startPosition, finishPosition)
        /\ LongestResultOk(longestPath, startPosition, finishPosition)

\* C8 at work: several simple paths of different cell counts join the
\* markers, and the displayed longest path is one of the greatest.
C8_Witness ==
    /\ MarkersSet
    /\ Len(undoHistory) > 1
    /\ \E p, q \in SimplePaths(startPosition, finishPosition) : Len(p) < Len(q)
    /\ longestPath \in SimplePaths(startPosition, finishPosition)
    /\ Len(longestPath) >= 5


(***************************************************************************)
(* Decision Engine and Agent Runtime: the move chosen for an agent.        *)
(***************************************************************************)
\* Player i took a step in this transition (by the shortcut of move() or by
\* the thinking callback).
Stepped(i) ==
    /\ i \in DOMAIN players'
    /\ Len(players'[i].path) = Len(players[i].path) + 1

LegalMovesOf(pos) == getPossibleMoves(width, height, grid, pos)

\* C3: whenever the agent's cell has at least two legal moves and one of
\* them is the reverse of the last direction, the move chosen for the agent
\* (by the runtime shortcut or by decideNextMove, for every tier
\* configuration and every draw) is not the reverse move; the reverse is
\* taken only when it is the only legal move.
C3_NoReversal ==
    [][\A i \in DOMAIN players :
          (/\ Stepped(i)
           /\ players[i].lastDirection # "null"
           /\ players'[i].lastDirection = oppositeDir(players[i].lastDirection))
          => Len(LegalMovesOf(players[i].position)) = 1]_vars

\* C3 at work: the agent left, by a forward move, a cell that had at least
\* three legal moves, the reverse of its last direction among them.
C3_Witness ==
    \E i \in DOMAIN players :
        LET p == players[i]
            n == Len(p.path)
        IN  /\ n >= 3
            /\ Len(LegalMovesOf(p.path[n - 1])) >= 3
            /\ \E m \in SeqToSet(LegalMovesOf(p.path[n - 1])) : <<m.x, m.y>> = p.path[n - 2]
            /\ p.position = p.path[n]
            /\ p.position # p.path[n - 2]

\* The decisions whose thinking pause is pending.
PendingDecisions ==
    {t.decision : t \in {u \in UNION {players[i].pending : i \in DOMAIN players} :
                            u.kind = "think"}}

\* C4: once the block executed in a tier narrows the candidate set to
\* exactly one move, decideNextMove returns that move and no later tier is
\* consulted: that execution is the last one, and its tier is the last one
\* whose blocks were tested for applicability.
C4_SingleMoveEndsDecision ==
    \A d \in PendingDecisions :
        \A k \in DOMAIN d.executed :
            Len(d.executed[k].moves) = 1 =>
                /\ k = Len(d.executed)
                /\ d.tested[Len(d.tested)] = d.executed[k].tier
                /\ d.move = d.executed[k].moves[1]

\* C4 at work: a pending decision ended in a tier whose block narrowed
\* several candidates to one move, while a later tier of that brain holds a
\* block.
C4_Witness ==
    \E i \in DOMAIN players : \E t \in players[i].pending :
        /\ t.kind = "think"
        /\ t.decision.executed # <<>>
        /\ LET last == t.decision.executed[Len(t.decision.executed)]
           IN  /\ Len(last.moves) = 1
               /\ t.decision.move = last.moves[1]
               /\ \E j \in TierIndexes : j > last.tier /\ players[i].tiers[j].blocks # <<>>


(***************************************************************************)
(* Maze Generator: the shape of the open region.                           *)
(***************************************************************************)
\* The initially open cell: the tractor's start cell.
Origin == <<width \div 2, height \div 2>>

\* The open cells reached from the cells reached so far.
RECURSIVE OpenRegion(_)
OpenRegion(reached) ==
    LET more == reached \cup UNION {OpenNeighbours(c) : c \in reached}
    IN  IF more = reached THEN reached ELSE OpenRegion(more)

\* C11: in every reachable grid state every open cell is connected to the
\* origin cell by a path of orthogonally adjacent open cells: there is no
\* disconnected open region.
C11_OpenCellsConnected ==
    /\ IsOpen(Origin)
    /\ OpenCells \subseteq OpenRegion({Origin})

\* C11 at work: after moves of the tractor, which stands away from the
\* origin, the open region branches (a cell with three open neighbours) and
\* has at least six cells.
C11_Witness ==
    /\ Len(undoHistory) > 2
    /\ tractorPosition # Origin
    /\ Cardinality(OpenCells) >= 6
    /\ \E c \in OpenCells : Cardinality(OpenNeighbours(c)) >= 3

\* The cells of the shortest open walk from a to its open neighbour b that
\* does not take the step a -> b (with a and b: the cells of the shortest
\* cycle through that step); 0 when there is none.
RECURSIVE AroundTo(_, _, _, _)
AroundTo(reached, a, b, k) ==
    IF b \in reached THEN k
    ELSE LET more == reached \cup UNION {OpenNeighbours(c) : c \in reached \ {a}}
         IN  IF more = reached THEN 0 ELSE AroundTo(more, a, b, k + 1)

ShortestCycleThrough(a, b) == AroundTo({a} \cup (OpenNeighbours(a) \ {b}), a, b, 2)

\* C12 as stated: there is exactly one simple open-cell path from any open
\* cell to the origin cell (the open cells form a tree, with no cycle).
C12_ExactlyOnePath ==
    \A c \in OpenCells : Cardinality(SimplePaths(c, Origin)) = 1

\* C12, as the code has it: there is at least one simple open-cell path from
\* any open cell to the origin cell; there can be several, since canPlow
\* excludes only fully open 2x2 blocks: every cycle of open cells has at
\* least eight cells (it goes around an unplowed cell).
C12_PathsAndLongCycles ==
    /\ \A c \in OpenCells : SimplePaths(c, Origin) # {}
    /\ \A a \in OpenCells : \A b \in OpenNeighbours(a) :
          ShortestCycleThrough(a, b) = 0 \/ ShortestCycleThrough(a, b) >= 8

\* C12 at work: the tractor has just closed a cycle: its move joined two
\* open cells, and two simple paths lead from its cell to the origin.
C12_Witness ==
    /\ Len(undoHistory) > 1
    /\ tractorPosition \notin undoHistory[Len(undoHistory)].grid
    /\ Cardinality(OpenNeighbours(tractorPosition)) >= 2
    /\ Cardinality(SimplePaths(tractorPosition, Origin)) >= 2
    /\ \E b \in OpenNeighbours(tractorPosition) :
          ShortestCycleThrough(tractorPosition, b) >= 8


(***************************************************************************)
(* The lifecycle of a player: Active, Finished (at Exit), Stuck (no move). *)
(***************************************************************************)
IsFinished(p) == p.isFinished
IsStuck(p) == ~p.isActive /\ ~p.isFinished
IsTerminal(p) == IsFinished(p) \/ IsStuck(p)

\* C13: Finished and Stuck are terminal: in every step that keeps a Finished
\* or Stuck player in the list, the player stays inactive, keeps its
\* lifecycle state, and its position, visited set, visit counts and last
\* direction are what they were.
C13_TerminalStates ==
    [][\A i \in DOMAIN players :
          (i \in DOMAIN players' /\ IsTerminal(players[i]))
          => /\ ~players'[i].isActive
             /\ players'[i].isFinished = players[i].isFinished
             /\ players'[i].position = players[i].position
             /\ players'[i].visited = players[i].visited
             /\ players'[i].visitCounts = players[i].visitCounts
             /\ players'[i].lastDirection = players[i].lastDirection]_vars

\* A player that got Stuck on a cell closed under it, then saw the pause
\* button pressed (a paused player's tick does not decide, so the pause came
\* after the player was Stuck).
C13_Witness ==
    \E i \in DOMAIN players :
        /\ IsStuck(players[i])
        /\ players[i].currentThought = <<"cross">>
        /\ players[i].isPaused
        /\ players[i].position \notin grid
        /\ Len(players[i].path) > 2


\* Tier configurations to decide with: none, and each pool block alone.
OneBlockTiers(b) ==
    [EmptyTiers EXCEPT ![1].blocks =
        <<[type |-> b.type, weight |-> WeightUnit, mode |-> b.mode]>>]
TierSamples == {EmptyTiers} \cup {OneBlockTiers(b) : b \in PoolBlocks}

\* Player i is due for a tick that decides: its move() callback is pending
\* and it is active, not paused and not on Exit.
Ticking(i) ==
    /\ MoveTimer \in players[i].pending
    /\ players[i].isActive /\ ~players[i].isFinished /\ ~players[i].isPaused
    /\ players[i].position # finishPosition

\* The one open neighbour of the cell is the one the player came from.
AtDeadEnd(p) ==
    /\ p.lastDirection # "null"
    /\ OpenNeighbours(p.position) = {NeighbourAt(p.position, oppositeDir(p.lastDirection))}

\* C14: at a deciding tick of a player, decideNextMove (with the player's
\* tiers and with each sample configuration) returns no move exactly when the
\* player's cell has no open neighbour, and the tick leaves the player Stuck
\* exactly in that case; at a dead end the tick schedules the reverse move
\* and the player stays active.
C14_StuckIffNoLegalMove ==
    [][\A i \in DOMAIN players :
          (Ticking(i) /\ MoveCallback(i) /\ i \in DOMAIN players')
          => LET p == players[i]
                 q == players'[i]
                 blocked == OpenNeighbours(p.position) = {}
             IN  /\ \A tiers \in TierSamples \cup {p.tiers} :
                       \A d \in decideNextMove(DecisionContext(i), tiers) :
                           (d.move = NoMove) <=> blocked
                 /\ IsStuck(q) <=> blocked
                 /\ AtDeadEnd(p)
                       => /\ q.isActive
                          /\ q.position = p.position
                          /\ \E t \in q.pending :
                                /\ t.kind = "think"
                                /\ t.decision.move.direction = oppositeDir(p.lastDirection)
                                /\ t.decision.thought = NoThought]_vars

\* A player that turned round at a dead end and went on, and later got Stuck
\* on a cell with no open neighbour.
C14_Witness ==
    \E i \in DOMAIN players :
        /\ IsStuck(players[i])
        /\ OpenNeighbours(players[i].position) = {}
        /\ \E k \in 1..(Len(players[i].path) - 2) :
              players[i].path[k] = players[i].path[k + 2]

(***************************************************************************)
(* The corridor scenario.                                                  *)
(***************************************************************************)
\* The maze is one unbranched corridor from Entry to Exit: the markers are
\* two cells with one open neighbour each, every other open cell has two,
\* and the shortest path runs through every open cell.
IsCorridorMaze ==
    /\ MarkersSet /\ startPosition # finishPosition
    /\ \A c \in OpenCells :
          Cardinality(OpenNeighbours(c)) = (IF c \in {startPosition, finishPosition} THEN 1 ELSE 2)
    /\ shortestPath # NullPath
    /\ Len(shortestPath) = Cardinality(OpenCells)

\* C15: in a corridor maze of n cells, every player's path is the corridor
\* from Entry up to its position, it never carries an annotation before it
\* finishes, no thinking pause is pending, it is never Stuck, its next tick is
\* scheduled while it is active, and it is Finished exactly with n - 1 moves
\* made, on Exit.
C15_CorridorWalk ==
    IsCorridorMaze =>
        \A i \in DOMAIN players :
            LET p == players[i]
                n == Cardinality(OpenCells)
            IN  /\ Len(p.path) <= n
                /\ p.path = SubSeq(shortestPath, 1, Len(p.path))
                /\ p.position = p.path[Len(p.path)]
                /\ \A t \in p.pending : t.kind = "move"
                /\ ~IsStuck(p)
                /\ p.isActive => MoveTimer \in p.pending
                /\ IF p.isFinished
                   THEN /\ Len(p.path) - 1 = n - 1
                        /\ p.position = finishPosition
                        /\ p.currentThought = <<"party">>
                   ELSE p.currentThought = NoThought

\* A player with a configured brain that walked the whole corridor and
\* finished.
C15_Witness ==
    /\ IsCorridorMaze
    /\ Cardinality(OpenCells) = InitWidth
    /\ \E i \in DOMAIN players :
          /\ players[i].isFinished
          /\ Len(players[i].path) = InitWidth
          /\ BlockCount(players[i].tiers) = MaxBlocks

(***************************************************************************)
(* Players and the farmer's operations.                                    *)
(***************************************************************************)
\* C16: whenever a player is in the list (spawned and not cleared), Entry
\* and Exit are both set.
C16_PlayersNeedMarkers ==
    players # <<>> => (startPosition # Null /\ finishPosition # Null)

\* A player still in the list after an undo or reset in player mode that
\* closed the cell it stands on.
C16_Witness ==
    /\ gameMode = "player"
    /\ MarkersSet
    /\ \E i \in DOMAIN players :
          players[i].isActive /\ players[i].position \notin grid

\* What a tick may not touch in another player.
Bookkeeping(p) ==
    [position |-> p.position, visited |-> p.visited, visitCounts |-> p.visitCounts,
     lastDirection |-> p.lastDirection, isActive |-> p.isActive,
     isFinished |-> p.isFinished, isRemoved |-> p.isRemoved, isPaused |-> p.isPaused]

\* C17: a callback of player i (the tick with its decision, or the end of
\* its thinking pause with the move commit) leaves the grid, the tractor and
\* the markers as they are, keeps every player in the list, and leaves the
\* position, visit bookkeeping, last direction and lifecycle state of every
\* other player unchanged.
C17_TickFrame ==
    [][\A i \in DOMAIN players :
          (MoveCallback(i) \/ ThinkCallback(i))
          => /\ grid' = grid
             /\ tractorPosition' = tractorPosition
             /\ startPosition' = startPosition
             /\ finishPosition' = finishPosition
             /\ DOMAIN players' = DOMAIN players
             /\ \A j \in DOMAIN players \ {i} :
                   Bookkeeping(players'[j]) = Bookkeeping(players[j])]_vars

\* Two players, one that has walked on after a decision while the other has
\* not had its first tick yet.
C17_Witness ==
    /\ Len(players) = 2
    /\ \E i, j \in DOMAIN players :
          /\ Len(players[i].path) > 2
          /\ players[i].lastDirection # "null"
          /\ Len(players[j].path) = 1
          /\ players[j].lastDirection = "null"
          /\ players[j].isActive

\* C18: the move committed when the thinking pause of a player ends is a
\* move that decideNextMove returns in the state at commit time (between the
\* decision and the commit nothing the decision depends on has changed).
C18_CommitIsCurrentDecision ==
    [][\A i \in DOMAIN players :
          (ThinkCallback(i) /\ i \in DOMAIN players'
              /\ players'[i].path # players[i].path)
          => \E d \in decideNextMove(DecisionContext(i), players[i].tiers) :
                /\ d.move # NoMove
                /\ <<d.move.x, d.move.y>> = players'[i].position
                /\ d.move.direction = players'[i].lastDirection]_vars

\* Where a player is and how it got there.
Walk(p) ==
    [position |-> p.position, visitCounts |-> p.visitCounts,
     lastDirection |-> p.lastDirection, path |-> p.path]

\* C19: the thinking pause is cancellable.  When the thinking delay of a
\* paused (or inactive) player elapses, its move is not committed and no
\* thinking callback stays pending; in every step in which a player is and
\* stays paused its position, visit counts and last direction are unchanged;
\* the only pending callback of a player is the one stopMoving clears, and
\* stopping the players leaves no player and no callback behind.
C19_ThinkingCancellable ==
    [][/\ \A i \in DOMAIN players :
            \A t \in players[i].pending : t = players[i].moveInterval
       /\ \A i \in DOMAIN players :
            (ThinkCallback(i) /\ i \in DOMAIN players'
                /\ (players[i].isPaused \/ ~players[i].isActive))
            => /\ Walk(players'[i]) = Walk(players[i])
               /\ \A t \in players'[i].pending : t.kind = "move"
       /\ \A i \in DOMAIN players :
            (i \in DOMAIN players' /\ players[i].isPaused /\ players'[i].isPaused)
            => Walk(players'[i]) = Walk(players[i])
       /\ stopAllPlayers => players' = <<>>]_vars

\* A paused player whose thinking delay has elapsed: the thought of the
\* decision is still shown, the move was not made, and the tick is polling.
C19_Witness ==
    \E i \in DOMAIN players :
        /\ players[i].isPaused
        /\ players[i].isActive
        /\ players[i].currentThought # NoThought
        /\ players[i].pending = {MoveTimer}

\* C20: the global pause holds every player: each player's pause flag is
\* the game's (also for players spawned while paused), and in every step
\* taken while the game is and stays paused no player's position, visit
\* counts, last direction or path changes (also for players whose thinking
\* delay was running when the pause began).
C20_GlobalPause ==
    [][/\ \A i \in DOMAIN players : players[i].isPaused = isPaused
       /\ (isPaused /\ isPaused')
            => \A i \in DOMAIN players :
                  i \in DOMAIN players' => Walk(players'[i]) = Walk(players[i])]_vars

\* The game paused with two players held: one that has walked and is in its
\* thinking delay, and a later one that has not moved from Entry.
C20_Witness ==
    /\ isPaused
    /\ \E i, j \in DOMAIN players :
          /\ i < j
          /\ players[i].isPaused /\ Len(players[i].path) > 1
          /\ \E t \in players[i].pending : t.kind = "think"
          /\ players[j].isPaused /\ Len(players[j].path) = 1
          /\ players[j].isActive

(***************************************************************************)
(* The brains of the players and the tier editor.                          *)
(***************************************************************************)
\* C21: the tiers of a spawned player are its own: every step that keeps
\* the player in the list (blocks added to, removed from, moved between or
\* re-weighted in the game's tier configuration, another player spawned)
\* leaves its tiers as they were at its spawn.
C21_PrivateTiers ==
    [][\A i \in DOMAIN players :
          i \in DOMAIN players' => players'[i].tiers = players[i].tiers]_vars

\* Two players with different brains, the first one with a re-weighted tier,
\* and the game's configuration under way for a third.
C21_Witness ==
    /\ Len(players) = 2
    /\ players[1].tiers # players[2].tiers
    /\ \E t \in TierIndexes : \E k \in DOMAIN players[1].tiers[t].blocks :
          players[1].tiers[t].blocks[k].weight # WeightUnit
    /\ currentTierConfig # EmptyTiers

(***************************************************************************)
(* The tiered decision engine as a function of the decision context and    *)
(* the tiers.                                                              *)
(***************************************************************************)
\* The results decideNextMove can return for player i in this state.
Decisions(i) == decideNextMove(DecisionContext(i), players[i].tiers)

\* The candidates a decision of player i starts with.
Candidates(i) ==
    FilterReversal(LegalMovesOf(players[i].position), players[i].lastDirection)

\* The blocks of a tier of player i that are applicable to the moves.
ApplicableBlocks(i, tierIndex, moves) ==
    SelectSeq(players[i].tiers[tierIndex].blocks,
              LAMBDA b : isBlockApplicable(b, DecisionContext(i), moves))

\* C22: a tier whose applicable blocks all have weight zero is skipped: in
\* no decision a block is executed from a tier in which the applicable
\* blocks have the weight sum zero.
C22_ZeroWeightTierSkipped ==
    \A i \in DOMAIN players :
        \A d \in Decisions(i) :
            \A k \in DOMAIN d.executed :
                SumWeights(ApplicableBlocks(i, d.executed[k].tier, d.executed[k].before)) > 0

\* The weight of the first i blocks.
CumulativeWeight(blocks, i) == SumWeights(SubSeq(blocks, 1, i))

\* The draws k / RandomDenominator that select block i.
DrawsFor(blocks, i) == {k \in 0..(RandomDenominator - 1) : SelectBlock(blocks, k) = i}

\* C23: for the applicable blocks of a tier with positive weight sum W and
\* the draw r = (k / RandomDenominator) * W, exactly one block is selected:
\* block i when r lies in the i-th cumulative-weight interval, counted with
\* its upper end (and the first block for r = 0); the draws that select
\* block i are its share wi / W of all draws, to within one draw.
C23_WeightedDraw ==
    \A p \in DOMAIN players : \A t \in TierIndexes :
        LET blocks == ApplicableBlocks(p, t, Candidates(p))
            W == SumWeights(blocks)
        IN  W > 0 =>
              /\ \A k \in 0..(RandomDenominator - 1) :
                    /\ SelectBlock(blocks, k) \in DOMAIN blocks
                    /\ \A i \in DOMAIN blocks :
                          (SelectBlock(blocks, k) = i)
                          <=> \/ /\ RandomDenominator * CumulativeWeight(blocks, i - 1) < k * W
                                 /\ k * W <= RandomDenominator * CumulativeWeight(blocks, i)
                              \/ (k = 0 /\ i = 1)
              /\ \A i \in DOMAIN blocks :
                    LET share == Cardinality(DrawsFor(blocks, i)) * W
                                    - blocks[i].weight * RandomDenominator
                    IN  share <= W /\ 0 - share <= W

\* A brain with the weights 3 : 1 in its first tier, both blocks applicable,
\* that has drawn the first block and is thinking.
C23_Witness ==
    \E p \in DOMAIN players :
        LET blocks == ApplicableBlocks(p, 1, Candidates(p))
        IN  /\ Len(blocks) = 2
            /\ blocks[1].weight = 3 * blocks[2].weight
            /\ blocks[2].weight > 0
            /\ \E t \in players[p].pending :
                  /\ t.kind = "think"
                  /\ t.decision.executed # <<>>
                  /\ t.decision.executed[1].block = blocks[1]

\* The glyphs the executed blocks of a decision contributed, in tier order.
RECURSIVE Contributed(_)
Contributed(executed) ==
    IF executed = <<>> THEN <<>>
    ELSE LET e == Head(executed)
         IN  (IF Len(e.moves) > 0 /\ e.thought # "null" THEN <<e.thought>> ELSE <<>>)
                \o Contributed(Tail(executed))

NonDice(glyphs) == SelectSeq(glyphs, LAMBDA g : g # "dice")

\* C24: the annotation of a decision among several candidates is the dice
\* glyph alone when no executed block contributed another glyph, otherwise
\* the contributed non-dice glyphs in tier order; dice never accompanies
\* another glyph.
C24_Annotation ==
    \A i \in DOMAIN players :
        Len(Candidates(i)) > 1 =>
            \A d \in Decisions(i) :
                /\ d.thought = IF NonDice(Contributed(d.executed)) = <<>>
                               THEN <<"dice">>
                               ELSE NonDice(Contributed(d.executed))
                /\ Len(d.thought) > 1 => \A k \in DOMAIN d.thought : d.thought[k] # "dice"

\* A thinking brain whose blocks contributed the dice and another glyph.
C24_Witness ==
    \E i \in DOMAIN players : \E t \in players[i].pending :
        /\ t.kind = "think"
        /\ \E k \in DOMAIN Contributed(t.decision.executed) :
              Contributed(t.decision.executed)[k] = "dice"
        /\ NonDice(Contributed(t.decision.executed)) # <<>>
        /\ t.decision.thought = NonDice(Contributed(t.decision.executed))

\* Opening c would leave an in-bounds 2x2 block fully open.
Completes2x2(c) == \E b \in Blocks : c \in b /\ b \subseteq grid \cup {c}

\* c would be a third open perimeter cell.
ThirdPerimeterCell(c) ==
    c \in PerimeterCells /\ Cardinality(grid \cap PerimeterCells) >= 2

\* C25: canPlow(x, y) is true exactly when the cell is open already, or
\* when opening it neither adds a perimeter cell to two open ones nor
\* completes an in-bounds 2x2 block; blocks reaching outside the grid are
\* not among those tested.
C25_CanPlowExact ==
    \A c \in Cells :
        canPlow(width, height, grid, c[1], c[2])
        <=> \/ c \in grid
            \/ ~ThirdPerimeterCell(c) /\ ~Completes2x2(c)

\* After some moves: a closed perimeter cell next to the tractor that canPlow
\* accepts, an open perimeter cell while two perimeter cells are open, and a
\* closed cell refused for the 2x2 block it would complete.
C25_Witness ==
    /\ Len(undoHistory) > 1
    /\ Cardinality(grid \cap PerimeterCells) = 2
    /\ \E c \in grid \cap PerimeterCells : canPlow(width, height, grid, c[1], c[2])
    /\ \E c \in Cells \ (grid \cup PerimeterCells) :
          Completes2x2(c) /\ ~canPlow(width, height, grid, c[1], c[2])
    /\ \E c \in PerimeterCells \ grid : ~canPlow(width, height, grid, c[1], c[2])

\* The entries of a decision executed in tiers above t.
ExecutedAbove(d, t) == SelectSeq(d.executed, LAMBDA e : e.tier < t)

\* The candidates left when the decision d of player i reaches tier t.
MovesAt(i, d, t) ==
    LET above == SelectSeq(ExecutedAbove(d, t), LAMBDA e : Len(e.moves) > 0)
    IN  IF above = <<>> THEN Candidates(i) ELSE above[Len(above)].moves

Increasing(s) == \A j, k \in DOMAIN s : j < k => s[j] < s[k]

\* The decision d ended in tier t with a single move.
EndedIn(d, t) == \E k \in DOMAIN d.executed :
                    d.executed[k].tier = t /\ Len(d.executed[k].moves) = 1

\* C26: a decision visits the tiers in the order 1, 2, 3 up to the tier
\* that leaves a single move, skipping only empty tiers; in each tier the
\* blocks are tested against the candidates left by the tiers above: the
\* executed block is applicable to them, and a visited tier executes no
\* block only when none is applicable to them.
C26_TierOrder ==
    \A i \in DOMAIN players :
        Len(Candidates(i)) > 1 =>
            \A d \in Decisions(i) :
                /\ Increasing(d.tested)
                /\ Increasing([k \in DOMAIN d.executed |-> d.executed[k].tier])
                /\ \A t \in TierIndexes :
                      LET visited == \E k \in DOMAIN d.tested : d.tested[k] = t
                          ran == {k \in DOMAIN d.executed : d.executed[k].tier = t}
                          left == MovesAt(i, d, t)
                      IN  /\ visited <=> /\ players[i].tiers[t].blocks # <<>>
                                         /\ \A u \in 1..(t - 1) : ~EndedIn(d, u)
                          /\ ran # {} => visited
                          /\ \A k \in ran :
                                /\ d.executed[k].before = left
                                /\ \E b \in DOMAIN ApplicableBlocks(i, t, left) :
                                      ApplicableBlocks(i, t, left)[b] = d.executed[k].block
                          /\ visited /\ ran = {} => ApplicableBlocks(i, t, left) = <<>>

\* A thinking brain whose first tier narrowed the candidates without
\* deciding and whose second tier holds a block applicable to the legal
\* moves but not to the narrowed ones: the second tier executed nothing.
C26_Witness ==
    \E i \in DOMAIN players : \E t \in players[i].pending :
        /\ t.kind = "think"
        /\ Len(t.decision.executed) = 1
        /\ t.decision.executed[1].tier = 1
        /\ Len(t.decision.executed[1].moves) > 1
        /\ Len(t.decision.executed[1].moves) < Len(Candidates(i))
        /\ t.decision.tested = <<1, 2>>
        /\ ApplicableBlocks(i, 2, Candidates(i)) # <<>>
        /\ ApplicableBlocks(i, 2, t.decision.executed[1].moves) = <<>>

\* The direction after a quarter turn to the right, the rows of the grid
\* numbered downwards.
TurnRight(d) ==
    CASE d = "up" -> "right" [] d = "right" -> "down"
      [] d = "down" -> "left" [] d = "left" -> "up"

TurnLeft(d) == CHOOSE e \in Dirs : TurnRight(e) = d

Reverse(d) == TurnRight(TurnRight(d))

\* The ranking of the directions for a brain heading d.
WallRanking(d, mode) ==
    IF mode = "left" THEN <<TurnLeft(d), d, TurnRight(d), Reverse(d)>>
    ELSE <<TurnRight(d), d, TurnLeft(d), Reverse(d)>>

DirectionsOf(moves) == {moves[k].direction : k \in DOMAIN moves}

\* The first direction of the ranking found among the moves.
TopRanked(ranking, moves) ==
    ranking[CHOOSE k \in DOMAIN ranking :
                /\ ranking[k] \in DirectionsOf(moves)
                /\ \A j \in 1..(k - 1) : ranking[j] \notin DirectionsOf(moves)]

\* C27: an executed WallFollowing block leaves exactly one move, the first
\* available direction in the order turn-right, straight, turn-left,
\* reverse (Right mode) or turn-left, straight, turn-right, reverse (Left
\* mode); heading right with straight, right turn and left turn open, a
\* Right-mode block alone in the first tier decides for down on every draw.
C27_WallFollowing ==
    \A i \in DOMAIN players :
        Len(Candidates(i)) > 1 =>
            \A d \in Decisions(i) :
                /\ \A k \in DOMAIN d.executed :
                      d.executed[k].type = "wallFollowing" =>
                          /\ players[i].lastDirection # "null"
                          /\ Len(d.executed[k].moves) = 1
                          /\ d.executed[k].moves[1].direction =
                                TopRanked(WallRanking(players[i].lastDirection,
                                                      d.executed[k].block.mode),
                                          d.executed[k].before)
                /\ ( /\ players[i].lastDirection = "right"
                     /\ DirectionsOf(Candidates(i)) = {"right", "down", "up"}
                     /\ players[i].tiers[1].blocks
                            = <<Weighted("wallFollowing", "right", WeightUnit)>> )
                   => d.move.direction = "down"

\* A Right-mode brain heading right on the crossing, thinking, about to
\* turn down.
C27_Witness ==
    \E i \in DOMAIN players : \E t \in players[i].pending :
        /\ t.kind = "think"
        /\ players[i].lastDirection = "right"
        /\ DirectionsOf(Candidates(i)) = {"right", "down", "up"}
        /\ players[i].tiers[1].blocks = <<Weighted("wallFollowing", "right", WeightUnit)>>
        /\ Len(t.decision.executed) = 1
        /\ t.decision.executed[1].type = "wallFollowing"
        /\ t.decision.move.direction = "down"

\* The number of visits player i recorded for the target of move m.
Visits(i, m) ==
    IF <<m.x, m.y>> \in DOMAIN players[i].visitCounts
    THEN players[i].visitCounts[<<m.x, m.y>>] ELSE 0

\* The moves of a set with the fewest / the most visits.
LeastVisited(i, moves) ==
    {m \in moves : \A n \in moves : Visits(i, m) <= Visits(i, n)}
MostVisited(i, moves) ==
    {m \in moves : \A n \in moves : Visits(i, m) >= Visits(i, n)}

\* C28: a Backtracking block is applicable exactly when the candidates'
\* visit counts are not all equal; executed, Avoid keeps exactly the
\* candidates with the minimum count and Seek those with the maximum; with
\* the counts 0, 2, 2 Avoid leaves the candidate with count 0 alone.
C28_Backtracking ==
    \A i \in DOMAIN players :
        Len(Candidates(i)) > 1 =>
            /\ \A t \in TierIndexes : \A b \in DOMAIN players[i].tiers[t].blocks :
                  LET block == players[i].tiers[t].blocks[b]
                  IN  block.type = "backtracking" =>
                        ( isBlockApplicable(block, DecisionContext(i), Candidates(i))
                          <=> \E m, n \in SeqToSet(Candidates(i)) :
                                  Visits(i, m) # Visits(i, n) )
            /\ \A d \in Decisions(i) : \A k \in DOMAIN d.executed :
                  LET e == d.executed[k]
                  IN  e.type = "backtracking" =>
                        /\ SeqToSet(e.moves) =
                              IF e.block.mode = "avoid"
                              THEN LeastVisited(i, SeqToSet(e.before))
                              ELSE MostVisited(i, SeqToSet(e.before))
                        /\ Len(e.moves) = Cardinality(SeqToSet(e.moves))
                        /\ SeqToSet(e.moves) # SeqToSet(e.before)

\* An Avoid brain at a junction of three candidates visited 0, 2 and 2
\* times, thinking, left with the unvisited candidate.
C28_Witness ==
    \E i \in DOMAIN players : \E t \in players[i].pending :
        /\ t.kind = "think"
        /\ Len(Candidates(i)) = 3
        /\ \E a \in SeqToSet(Candidates(i)) :
              /\ Visits(i, a) = 0
              /\ \A m \in SeqToSet(Candidates(i)) \ {a} : Visits(i, m) = 2
              /\ Len(t.decision.executed) = 1
              /\ t.decision.executed[1].block.type = "backtracking"
              /\ t.decision.executed[1].block.mode = "avoid"
              /\ t.decision.executed[1].moves = <<a>>
              /\ t.decision.move = a

\* The squared straight-line distance from cell c to Exit.
ToExit(c) ==
    (finishPosition[1] - c[1]) * (finishPosition[1] - c[1])
        + (finishPosition[2] - c[2]) * (finishPosition[2] - c[2])

\* The candidates of player i strictly closer to Exit than its position.
Closer(i) ==
    {m \in SeqToSet(Candidates(i)) : ToExit(<<m.x, m.y>>) < ToExit(players[i].position)}

TowardExitBlocks(i) ==
    {b \in UNION {SeqToSet(players[i].tiers[t].blocks) : t \in TierIndexes} :
        b.type = "towardExit"}

NextOnPath(i) ==
    brainFindShortestPath(width, height, grid, players[i].position, finishPosition)[2]

\* C30: whenever a CheckMap block executes, the candidates it leaves are
\* only the candidate whose target is the second cell of the shortest path
\* from the current position to Exit.
C30_CheckMapKeepsNextStep ==
    \A i \in DOMAIN players :
        Len(Candidates(i)) > 1 =>
            \A d \in Decisions(i) : \A k \in DOMAIN d.executed :
                d.executed[k].type = "checkMap" =>
                    /\ Len(d.executed[k].moves) = 1
                    /\ <<d.executed[k].moves[1].x, d.executed[k].moves[1].y>> = NextOnPath(i)

\* Exit lies on the row or the column of player i with only open cells
\* strictly between them.
ExitInSight(i) ==
    LET p == players[i].position
        f == finishPosition
    IN  /\ f # Null
        /\ \/ /\ p[1] = f[1]
              /\ \A y \in 0..(height - 1) :
                    ((p[2] < y /\ y < f[2]) \/ (f[2] < y /\ y < p[2])) => <<p[1], y>> \in grid
           \/ /\ p[2] = f[2]
              /\ \A x \in 0..(width - 1) :
                    ((p[1] < x /\ x < f[1]) \/ (f[1] < x /\ x < p[1])) => <<x, p[2]>> \in grid

\* The moves of a set whose target is closer to Exit than player i.
TowardExit(i, moves) ==
    {m \in moves : ToExit(<<m.x, m.y>>) < ToExit(players[i].position)}

\* The moves of a set nearest to uncharted territory, all of them when none
\* sees any.
TowardUncharted(i, moves) ==
    LET seeing == {m \in moves : distanceToUncharted(DecisionContext(i), m) > 0}
    IN  IF seeing = {} THEN moves
        ELSE {m \in seeing : \A n \in seeing :
                distanceToUncharted(DecisionContext(i), m)
                    <= distanceToUncharted(DecisionContext(i), n)}

\* C31: whenever a LineOfSight block executes while Exit is in sight, the
\* moves it leaves all head toward Exit along the line.
C31_OnlyTowardExitInSight ==
    \A i \in DOMAIN players :
        Len(Candidates(i)) > 1 =>
            \A d \in Decisions(i) : \A k \in DOMAIN d.executed :
                (d.executed[k].type = "lineOfSight" /\ ExitInSight(i))
                => SeqToSet(d.executed[k].moves)
                      \subseteq TowardExit(i, SeqToSet(d.executed[k].moves))

\* C31 as the code has it: a LineOfSight block executed with Exit in sight
\* leaves exactly the candidates heading toward Exit when there is one;
\* when there is none (the way to Exit is the reversal), it leaves the
\* candidates nearest to uncharted territory, or all of them.
C31_TowardExitWhenCandidate ==
    \A i \in DOMAIN players :
        Len(Candidates(i)) > 1 =>
            \A d \in Decisions(i) : \A k \in DOMAIN d.executed :
                (d.executed[k].type = "lineOfSight" /\ ExitInSight(i))
                => LET before == SeqToSet(d.executed[k].before)
                   IN  SeqToSet(d.executed[k].moves) =
                          IF TowardExit(i, before) # {} THEN TowardExit(i, before)
                          ELSE TowardUncharted(i, before)

\* A LineOfSight brain at a junction with Exit in sight ahead of a turn,
\* thinking, left with the single move toward Exit.
C31_Witness ==
    \E i \in DOMAIN players : \E t \in players[i].pending :
        /\ t.kind = "think"
        /\ ExitInSight(i)
        /\ Len(Candidates(i)) = 3
        /\ Len(t.decision.executed) = 1
        /\ t.decision.executed[1].type = "lineOfSight"
        /\ t.decision.executed[1].moves = <<t.decision.move>>
        /\ {t.decision.move} = TowardExit(i, SeqToSet(Candidates(i)))

\* The cell n steps from cell c in direction dir.
Ahead(c, dir, n) ==
    <<c[1] + n * directionDeltas(dir)[1], c[2] + n * directionDeltas(dir)[2]>>

\* The cells player i sees in direction dir: at most 7 cells, up to the
\* first cell that is not open.
SeenCells(i, dir) ==
    {Ahead(players[i].position, dir, n) : n \in
        {n \in 1..7 : \A k \in 1..n : Ahead(players[i].position, dir, k) \in grid \cap Cells}}

\* The other live agents: active, not finished, not removed.
OtherLive(i) ==
    {j \in DOMAIN players \ {i} :
        players[j].isActive /\ ~players[j].isFinished /\ ~players[j].isRemoved}

\* The number of other live agents player i sees along move m.
SeenAlong(i, m) ==
    Cardinality({j \in OtherLive(i) : players[j].position \in SeenCells(i, m.direction)})

SocialBlocksOf(i) ==
    {b \in UNION {SeqToSet(players[i].tiers[t].blocks) : t \in TierIndexes} :
        b.type = "social"}

Surviving(i) ==
    LET legal == SeqToSet(LegalMovesOf(players[i].position))
        forward == {m \in legal : players[i].lastDirection = "null"
                                    \/ m.direction # Reverse(players[i].lastDirection)}
    IN  IF forward = {} THEN legal ELSE forward

\* C33: in a decision every executed block returns a non-empty subset of
\* the candidates it was given, themselves among the surviving legal moves,
\* and the move returned is one of the surviving legal moves, for every
\* tier configuration and every draw.
C33_CandidatesOnlyShrink ==
    \A i \in DOMAIN players :
        LegalMovesOf(players[i].position) # <<>> =>
            \A d \in Decisions(i) :
                /\ d.move \in Surviving(i)
                /\ \A k \in DOMAIN d.executed :
                      /\ d.executed[k].moves # <<>>
                      /\ SeqToSet(d.executed[k].moves) \subseteq SeqToSet(d.executed[k].before)
                      /\ SeqToSet(d.executed[k].before) \subseteq Surviving(i)
                      /\ k > 1 => SeqToSet(d.executed[k].before)
                                     \subseteq SeqToSet(d.executed[k - 1].moves)

\* A thinking brain whose first tier narrowed three candidates to two and
\* whose second tier narrowed these to the move decided.
C33_Witness ==
    \E i \in DOMAIN players : \E t \in players[i].pending :
        /\ t.kind = "think"
        /\ Cardinality(Surviving(i)) = 3
        /\ Len(t.decision.executed) = 2
        /\ Len(t.decision.executed[1].moves) = 2
        /\ t.decision.executed[2].before = t.decision.executed[1].moves
        /\ t.decision.executed[2].moves = <<t.decision.move>>

(***************************************************************************)
(* Undo history.                                                           *)
(***************************************************************************)
\* The newest entry of the undo history.
NewestSaved == undoHistory[Len(undoHistory)]

\* The last change of the maze was a tractor move: the entry saved before it
\* is the newest one and differs from the current state (restoring and
\* resetting leave the current state as the newest entry).
MoveNotUndone == Len(undoHistory) > 1 /\ NewestSaved # getState

\* C34: an undo restores the state that held immediately before the most
\* recent tractor move not yet undone; stated for an undo that follows a
\* move: it restores the state saved before that move.
C34_UndoRevertsLastMove ==
    [][(Undo /\ MoveNotUndone) => getState' = NewestSaved]_vars

(***************************************************************************)
(* Agents and the grid under the farmer's shortcuts.                       *)
(***************************************************************************)
\* C35: every agent that has not been stopped stands on an in-bounds open
\* cell of the current grid, in every reachable state.
C35_AgentsOnOpenCells ==
    \A i \in DOMAIN players :
        players[i].isActive => players[i].position \in grid \cap Cells

(***************************************************************************)
(* Movement timers.                                                        *)
(***************************************************************************)
\* C36: each agent has at most one pending movement timer (tick, pause
\* poll or thinking delay), and it is the one its moveInterval handle
\* holds, so that stopMoving clears it; an agent that is no longer active
\* has none; stopping the players leaves no player and no timer.
C36_OneMovementTimer ==
    [][/\ \A i \in DOMAIN players :
             /\ Cardinality(players[i].pending) <= 1
             /\ players[i].pending \subseteq {players[i].moveInterval}
             /\ ~players[i].isActive => players[i].pending = {}
       /\ stopAllPlayers => players' = <<>>]_vars

\* A player paused while thinking: the thinking delay has run out and the
\* pause poll is its only timer, while another player's thinking delay is
\* pending.
C36_Witness ==
    \E i, j \in DOMAIN players :
        /\ i # j
        /\ players[i].isPaused
        /\ players[i].currentThought # NoThought
        /\ players[i].pending = {MoveTimer}
        /\ \E t \in players[j].pending : t.kind = "think"

(***************************************************************************)
(* Guided runs: a brain of one Check Map or one Wall Following block.      *)
(***************************************************************************)
\* The brain of player i is a single block of the given type.
SingleBlock(i, type) ==
    /\ Guided(players[i].tiers)
    /\ players[i].tiers[1].blocks[1].type = type
    /\ players[i].tiers[1].blocks[1].weight > 0

\* The number of moves on a shortest path from cell c to Exit.
MovesToExit(c) == Len(findShortestPath(width, height, grid, c, finishPosition)) - 1

\* The moves player i has committed.
MovesMade(i) == Len(players[i].path) - 1

\* A Check Map player is on a shortest path from Entry to Exit: the moves
\* made and the moves left add up to the shortest path, it stops only on
\* Exit, and then it has made the moves of the shortest path.
OnShortestPath(i) ==
    /\ MovesMade(i) + MovesToExit(players[i].position) = Len(shortestPath) - 1
    /\ ~players[i].isActive => players[i].isFinished
    /\ players[i].isFinished =>
          /\ players[i].position = finishPosition
          /\ MovesMade(i) = Len(shortestPath) - 1

\* C37: a player with a single positive-weight CheckMap block, spawned at
\* Entry and left to run, stays on a shortest path, reaches Exit and
\* becomes Finished after exactly (shortest-path cell count - 1) moves, in
\* every field and for every draw.
C37_CheckMapRun ==
    /\ [](\A i \in DOMAIN players : SingleBlock(i, "checkMap") => OnShortestPath(i))
    /\ (players # <<>> /\ SingleBlock(1, "checkMap"))
          ~> (players # <<>> /\ players[1].isFinished)

\* A Check Map player finished after a walk of at least four moves through
\* a junction of three legal moves or more.
C37_Witness ==
    \E i \in DOMAIN players :
        /\ SingleBlock(i, "checkMap")
        /\ players[i].isFinished
        /\ MovesMade(i) >= 4
        /\ MovesMade(i) = Len(shortestPath) - 1
        /\ \E k \in DOMAIN players[i].path : Len(LegalMovesOf(players[i].path[k])) >= 3

\* The cells player i stood on more than once.
Revisited(i) == {c \in DOMAIN players[i].visitCounts : players[i].visitCounts[c] >= 2}

\* Player i took no step, from one cell to a neighbour, twice.
NoStepTwice(i) ==
    LET path == players[i].path
    IN  \A k, l \in 1..(Len(path) - 1) :
            (path[k] = path[l] /\ path[k + 1] = path[l + 1]) => k = l

\* Player i has stopped without reaching Exit.
Stuck(i) == ~players[i].isActive /\ ~players[i].isFinished

\* C38: a player whose brain is one Wall Following block of positive weight,
\* Right or Left, spawned at Entry of a legally carved maze with both markers
\* and never paused or stopped, never becomes stuck, is finished only on
\* Exit, takes no step from a cell to a neighbour twice, and eventually is
\* finished: its walk does not cycle forever.
C38_WallFollowingRun ==
    /\ [](\A i \in DOMAIN players :
            SingleBlock(i, "wallFollowing") =>
                /\ ~Stuck(i)
                /\ NoStepTwice(i)
                /\ players[i].isFinished => players[i].position = finishPosition)
    /\ (players # <<>> /\ SingleBlock(1, "wallFollowing"))
           ~> (players # <<>> /\ players[1].isFinished)

\* A wall follower that finished after walking into a dead end and back, on
\* a longer way than the shortest one.
C38_Witness ==
    \E i \in DOMAIN players :
        /\ SingleBlock(i, "wallFollowing")
        /\ players[i].isFinished
        /\ players[i].position = finishPosition
        /\ Revisited(i) # {}
        /\ MovesMade(i) > Len(shortestPath) + 1

\* The sum of the visit counts of the cells S.
RECURSIVE TotalVisits(_, _)
TotalVisits(counts, S) ==
    IF S = {} THEN 0
    ELSE LET c == CHOOSE x \in S : TRUE
         IN  counts[c] + TotalVisits(counts, S \ {c})

\* The directions that lead from cell a to cell b.
StepDirections(a, b) ==
    {d \in Dirs : b = <<a[1] + directionDeltas(d)[1], a[2] + directionDeltas(d)[2]>>}

\* The bookkeeping of player p after the moves of its path.
BookkeepingKept(p) ==
    LET n == Len(p.path)
    IN  /\ p.visited = {c \in DOMAIN p.visitCounts : p.visitCounts[c] >= 1}
        /\ p.path[1] \in p.visited
        /\ p.position \in p.visited
        /\ TotalVisits(p.visitCounts, DOMAIN p.visitCounts) = (n - 1) + 1
        /\ (p.lastDirection = "null") <=> (n = 1)
        /\ n > 1 => StepDirections(p.path[n - 1], p.path[n]) = {p.lastDirection}

\* C39: for every player in every reachable state the visited set is the set
\* of cells with a visit count of at least 1, it holds the spawn cell and the
\* current position, the visit counts sum to the committed moves plus one,
\* and lastDirection is null iff no move was committed and otherwise the
\* direction of the latest committed move.
C39_VisitBookkeeping == \A i \in DOMAIN players : BookkeepingKept(players[i])

\* A player that came back to a cell: a visit count of 2 after four moves
\* or more.
C39_Witness ==
    \E i \in DOMAIN players :
        /\ MovesMade(i) >= 4
        /\ Revisited(i) # {}
        /\ players[i].position \in Revisited(i)
        /\ players[i].lastDirection # "null"

====
